---- MODULE Spec2Model ----
(***************************************************************************)
(* Markdown -> Atlassian Document Format converter of jira-tempo-mcp.      *)
(*                                                                         *)
(* A JavaScript string is modelled as a sequence of one-character strings, *)
(* indexed from 0 as in the source (CharAt, Slice).  An ADF node is a      *)
(* record with exactly the fields the source gives it, so an absent        *)
(* `marks` or `attrs` is an absent field.                                  *)
(***************************************************************************)
EXTENDS Integers, Sequences, FiniteSets, TLC

VARIABLES
    text,        \* parseInline: the argument
    lastIndex,   \* parseInline: end of the previous match
    match,       \* parseInline: result of the last inlineRe.exec
    nodes,       \* parseInline: the nodes pushed so far
    inlinePc,    \* parseInline: "idle", "loop" or "returned"
    markdown,    \* markdownToAdf, per caller: the argument of the outermost call
    stack,       \* markdownToAdf, per caller: the activation records, outermost first
    result,      \* markdownToAdf, per caller: the returned document or the error thrown
    returned,    \* every <<argument, outcome>> pair of an outermost call that is over
    worklogs,    \* Tempo: the worklogs of the user on the date, in the order Tempo lists them
    logTime,     \* tempo_log_time, per invocation: position and locals of the handler
    configured,  \* config: the two config files and the environment variables
    cachedConfig,\* config: the module variable cachedConfig
    resolved,    \* config: the argument and the outcome of the last call of resolveInstance
    listed       \* config: the outcome of the last call of listInstances or getAllInstances

vars == <<text, lastIndex, match, nodes, inlinePc, markdown, stack, result, returned,
          worklogs, logTime, configured, cachedConfig, resolved, listed>>
inlineVars == <<text, lastIndex, match, nodes, inlinePc>>
blockVars == <<markdown, stack, result, returned>>
tempoVars == <<worklogs, logTime>>
configVars == <<configured, cachedConfig, resolved, listed>>
toolVars == <<tempoVars, configVars>>

----------------------------------------------------------------------------
(* Bounds of the model *)

MaxInlineAtoms == 3
MaxLines == 3
MaxQuoteDepth == 2
NumCallers == 2
NumInvocations == 2
MaxWorklogs == 3
MaxInstances == 2
\* the nested activations of markdownToAdf the engine's call stack has room for
CallStackLimit == 3

----------------------------------------------------------------------------
(* Strings *)

Min(S) == CHOOSE x \in S : \A y \in S : x <= y

CharAt(s, p) == IF p >= 0 /\ p < Len(s) THEN s[p + 1] ELSE ""

Slice(s, a, b) == SubSeq(s, a + 1, IF b < Len(s) THEN b ELSE Len(s))

StartsWithAt(s, p, lit) ==
    /\ p >= 0
    /\ p + Len(lit) <= Len(s)
    /\ \A k \in 1..Len(lit) : s[p + k] = lit[k]

RECURSIVE Concat(_)
Concat(ss) == IF ss = <<>> THEN <<>> ELSE Head(ss) \o Concat(Tail(ss))

\* Array.prototype.join("\n")
RECURSIVE JoinLines(_)
JoinLines(ls) ==
    IF ls = <<>> THEN <<>>
    ELSE IF Len(ls) = 1 THEN ls[1]
    ELSE ls[1] \o <<"\n">> \o JoinLines(Tail(ls))

\* String.prototype.split("\n")
RECURSIVE SplitLines(_)
SplitLines(s) ==
    LET N == {p \in 0..(Len(s) - 1) : s[p + 1] = "\n"} IN
    IF N = {} THEN <<s>>
    ELSE <<Slice(s, 0, Min(N))>> \o SplitLines(Slice(s, Min(N) + 1, Len(s)))

\* the backtick character, which a TLA+ string cannot hold
Backtick == "BACKTICK"

\* the regular expression classes the source uses
WhiteSpace == {" ", "\t", "\n", "\r"}
LineTerminator == {"\n", "\r"}
Digit == {"0", "1", "2", "3", "4", "5", "6", "7", "8", "9"}
Letter ==
    {"a", "b", "c", "d", "e", "f", "g", "h", "i", "j", "k", "l", "m",
     "n", "o", "p", "q", "r", "s", "t", "u", "v", "w", "x", "y", "z",
     "A", "B", "C", "D", "E", "F", "G", "H", "I", "J", "K", "L", "M",
     "N", "O", "P", "Q", "R", "S", "T", "U", "V", "W", "X", "Y", "Z"}
WordChar == Letter \cup Digit \cup {"_"}
AccountIdChar == Letter \cup Digit \cup {":", "_", "-"}

\* number of characters of s from offset p on that belong to class
RunLength(s, p, class) ==
    LET stop == {q \in p..(Len(s) - 1) : s[q + 1] \notin class} IN
    IF p >= Len(s) THEN 0
    ELSE IF stop = {} THEN Len(s) - p ELSE Min(stop) - p

\* String.prototype.trimEnd and trim
TrimEnd(s) ==
    LET keep == {n \in 1..Len(s) : s[n] \notin WhiteSpace} IN
    IF keep = {} THEN <<>> ELSE SubSeq(s, 1, CHOOSE n \in keep : \A k \in keep : k <= n)

TrimStart(s) == Slice(s, RunLength(s, 0, WhiteSpace), Len(s))

Trim(s) == TrimStart(TrimEnd(s))

----------------------------------------------------------------------------
(* Inline parser: the alternatives of inlineRe *)

NoMatch == [group |-> 0]

\* (.+?) followed by close: the end of the shortest non-empty span that
\* starts at from, holds no line terminator and is followed by close
LazySpanEnd(s, from, close) ==
    LET E == {e \in (from + 1)..(Len(s) - Len(close)) :
                 /\ StartsWithAt(s, e, close)
                 /\ \A q \in from..(e - 1) : s[q + 1] \notin LineTerminator} IN
    IF E = {} THEN -1 ELSE Min(E)

\* (\*\*(.+?)\*\*)
BoldAt(s, p) ==
    LET e == LazySpanEnd(s, p + 2, <<"*", "*">>) IN
    IF StartsWithAt(s, p, <<"*", "*">>) /\ e >= 0
    THEN [group |-> 1, index |-> p, length |-> e + 2 - p, a |-> Slice(s, p + 2, e)]
    ELSE NoMatch

\* (\*(.+?)\*)
ItalicStarAt(s, p) ==
    LET e == LazySpanEnd(s, p + 1, <<"*">>) IN
    IF StartsWithAt(s, p, <<"*">>) /\ e >= 0
    THEN [group |-> 3, index |-> p, length |-> e + 1 - p, a |-> Slice(s, p + 1, e)]
    ELSE NoMatch

\* (_(.+?)_)
ItalicUnderscoreAt(s, p) ==
    LET e == LazySpanEnd(s, p + 1, <<"_">>) IN
    IF StartsWithAt(s, p, <<"_">>) /\ e >= 0
    THEN [group |-> 5, index |-> p, length |-> e + 1 - p, a |-> Slice(s, p + 1, e)]
    ELSE NoMatch

\* [^c]+ followed by c: the offset of the first c after from, when the
\* characters before it are at least one
NegatedRunEnd(s, from, c) ==
    LET E == {e \in from..(Len(s) - 1) : s[e + 1] = c} IN
    IF E # {} /\ Min(E) > from THEN Min(E) ELSE -1

\* the code span alternative: a backtick, [^backtick]+, a backtick
CodeSpanAt(s, p) ==
    LET e == NegatedRunEnd(s, p + 1, Backtick) IN
    IF StartsWithAt(s, p, <<Backtick>>) /\ e >= 0
    THEN [group |-> 7, index |-> p, length |-> e + 1 - p, a |-> Slice(s, p + 1, e)]
    ELSE NoMatch

\* \[([^\]]+)\]\(([^)]+)\)
LinkAt(s, p) ==
    LET e1 == NegatedRunEnd(s, p + 1, "]")
        e2 == NegatedRunEnd(s, e1 + 2, ")") IN
    IF StartsWithAt(s, p, <<"[">>) /\ e1 >= 0 /\ CharAt(s, e1 + 1) = "(" /\ e2 >= 0
    THEN [group |-> 9, index |-> p, length |-> e2 + 1 - p,
          a |-> Slice(s, p + 1, e1), b |-> Slice(s, e1 + 2, e2)]
    ELSE NoMatch

AccountIdPrefix == <<"@", "a", "c", "c", "o", "u", "n", "t", "I", "d", ":">>

\* (@accountId:([a-zA-Z0-9:_-]+))
MentionAt(s, p) ==
    LET n == RunLength(s, p + Len(AccountIdPrefix), AccountIdChar) IN
    IF StartsWithAt(s, p, AccountIdPrefix) /\ n >= 1
    THEN [group |-> 11, index |-> p, length |-> Len(AccountIdPrefix) + n,
          a |-> Slice(s, p + Len(AccountIdPrefix), p + Len(AccountIdPrefix) + n)]
    ELSE NoMatch

\* the alternation at one offset: the first alternative that matches, with
\* italic tried before bold
MatchAtItalicFirst(s, p) ==
    LET bold == BoldAt(s, p)
        star == ItalicStarAt(s, p)
        underscore == ItalicUnderscoreAt(s, p)
        code == CodeSpanAt(s, p)
        link == LinkAt(s, p) IN
    IF star.group # 0 THEN star
    ELSE IF bold.group # 0 THEN bold
    ELSE IF underscore.group # 0 THEN underscore
    ELSE IF code.group # 0 THEN code
    ELSE IF link.group # 0 THEN link
    ELSE MentionAt(s, p)

\* the alternation at one offset: the first alternative that matches
MatchAt(s, p) ==
    LET bold == BoldAt(s, p)
        star == ItalicStarAt(s, p)
        underscore == ItalicUnderscoreAt(s, p)
        code == CodeSpanAt(s, p)
        link == LinkAt(s, p) IN
    IF bold.group # 0 THEN bold
    ELSE IF star.group # 0 THEN star
    ELSE IF underscore.group # 0 THEN underscore
    ELSE IF code.group # 0 THEN code
    ELSE IF link.group # 0 THEN link
    ELSE MentionAt(s, p)

\* offsets at or after from, in order, up to the first where the alternation matches
RECURSIVE FirstMatch(_, _)
FirstMatch(s, p) ==
    IF p >= Len(s) THEN NoMatch
    ELSE LET m == MatchAt(s, p) IN
         IF m.group # 0 THEN m ELSE FirstMatch(s, p + 1)

\* inlineRe.exec(text) with inlineRe.lastIndex = from: the match at the
\* smallest offset at or after from, or null
Exec(s, from) == FirstMatch(s, from)

----------------------------------------------------------------------------
(* Inline parser: the nodes *)

TextNode(t) == [type |-> "text", text |-> t]

\* the text node with the strong mark beside its own
MarkedTextStrongToo(t, mark) == [type |-> "text", text |-> t, marks |-> <<[type |-> "strong"], mark>>]

MarkedText(t, mark) == [type |-> "text", text |-> t, marks |-> <<mark>>]

MentionNode(id) ==
    [type |-> "mention", attrs |-> [id |-> id, text |-> <<"@">> \o id, accessLevel |-> <<>>]]

\* the node one branch of the loop body pushes
MatchNode(m) ==
    CASE m.group = 1 -> MarkedText(m.a, [type |-> "strong"])
      [] m.group = 3 -> MarkedText(m.a, [type |-> "em"])
      [] m.group = 5 -> MarkedText(m.a, [type |-> "em"])
      [] m.group = 7 -> MarkedText(m.a, [type |-> "code"])
      [] m.group = 9 -> MarkedText(m.a, [type |-> "link", attrs |-> [href |-> m.b]])
      [] m.group = 11 -> MentionNode(m.a)

\* one iteration of the while loop that drops the plain text before the match
PushMatchNodeOnly(s, from, ns, m) ==
    ns \o <<MatchNode(m)>>

\* one iteration of the while loop: the plain text before the match, then the node
PushMatch(s, from, ns, m) ==
    (IF m.index > from THEN Append(ns, TextNode(Slice(s, from, m.index))) ELSE ns)
        \o <<MatchNode(m)>>

\* after the loop: the trailing text only
PushTrailingOnly(s, from, ns) ==
    IF from < Len(s) THEN Append(ns, TextNode(Slice(s, from, Len(s)))) ELSE ns

\* after the loop: the trailing text, and at least one node
PushTrailing(s, from, ns) ==
    LET withTail == IF from < Len(s) THEN Append(ns, TextNode(Slice(s, from, Len(s)))) ELSE ns IN
    IF Len(withTail) = 0 THEN <<TextNode(<<>>)>> ELSE withTail

RECURSIVE ParseInlineFrom(_, _, _)
ParseInlineFrom(s, from, ns) ==
    LET m == Exec(s, from) IN
    IF m.group = 0 THEN PushTrailing(s, from, ns)
    ELSE ParseInlineFrom(s, m.index + m.length, PushMatch(s, from, ns, m))

parseInline(s) == ParseInlineFrom(s, 0, <<>>)

----------------------------------------------------------------------------
(* Inline parser as a state machine: one action per branch of the loop *)

InlineAtoms ==
    { <<"*">>, <<"*", "*">>, <<"_">>, <<Backtick>>, <<"x">>, <<" ">>, <<"\n">>,
      <<"[", "x", "]", "(">>, <<")">>, AccountIdPrefix \o <<"a", "1">> }

BoldAndItalic ==
    <<"*", "*", "b", "o", "l", "d", "*", "*", " ", "a", "n", "d", " ",
      "*", "i", "t", "a", "l", "i", "c", "*">>

MentionAbc123 == AccountIdPrefix \o <<"a", "b", "c", "1", "2", "3">>

InlineExamples ==
    { BoldAndItalic,
      <<"s", "e", "e", " ">> \o MentionAbc123 \o <<" ", "n", "o", "w">>,
      <<"*", "*">> \o MentionAbc123 \o <<"*", "*">> }

InlineInputs ==
    {Concat(as) : as \in UNION {[1..n -> InlineAtoms] : n \in 0..MaxInlineAtoms}}
        \cup InlineExamples

InlineIdle ==
    /\ text = <<>>
    /\ lastIndex = 0
    /\ match = NoMatch
    /\ nodes = <<>>
    /\ inlinePc = "idle"

\* no document: the call has not returned
NoDoc == [type |-> "none", content |-> <<>>]

BlockIdle ==
    /\ markdown = [c \in 1..NumCallers |-> <<>>]
    /\ stack = [c \in 1..NumCallers |-> <<>>]
    /\ result = [c \in 1..NumCallers |-> NoDoc]
    /\ returned = {}

\* no invocation of tempo_log_time is running and Tempo holds no worklog
NotInvoked == [pc |-> "idle", timeSpentSeconds |-> 0, startTime |-> <<>>]

TempoIdle ==
    /\ worklogs = <<>>
    /\ logTime = [p \in 1..NumInvocations |-> NotInvoked]

\* let cachedConfig = null: the empty sequence, <<config>> once it is set
NoConfig == <<>>

\* resolveInstance has not been called
NotResolved == [cwd |-> <<>>, outcome |-> [type |-> "none"]]

\* listInstances and getAllInstances have not been called
NotListed == [call |-> "none", outcome |-> <<>>]

\* existsSync(configPath) is false
AbsentFile == [state |-> "absent"]

EnvKeys ==
    {"JIRA_EMAIL", "JIRA_TOKEN_MMW", "TEMPO_TOKEN_MMW", "JIRA_TOKEN_PARES", "TEMPO_TOKEN_PARES",
     "JIRA_TOKEN_LAGOASOFT", "TEMPO_TOKEN_LAGOASOFT", "DEFAULT_BASE_BRANCH"}

\* process.env with no variable of the program set: <<>> is undefined, <<value>> a value
NoEnv == [key \in EnvKeys |-> <<>>]

ConfigIdle ==
    /\ configured = [files |-> <<AbsentFile, AbsentFile>>, env |-> NoEnv]
    /\ cachedConfig = NoConfig
    /\ resolved = NotResolved
    /\ listed = NotListed

ToolIdle ==
    /\ TempoIdle
    /\ ConfigIdle

InitInline ==
    /\ text \in InlineInputs
    /\ lastIndex = 0
    /\ match = NoMatch
    /\ nodes = <<>>
    /\ inlinePc = "loop"
    /\ BlockIdle
    /\ ToolIdle

\* one iteration of while ((match = inlineRe.exec(text)) !== null) { ... }
LoopIteration ==
    /\ match' = Exec(text, lastIndex)
    /\ nodes' = PushMatch(text, lastIndex, nodes, match')
    /\ lastIndex' = match'.index + match'.length
    /\ UNCHANGED <<text, inlinePc>>
    /\ UNCHANGED <<blockVars, toolVars>>

\* if (match[1])
Bold ==
    /\ inlinePc = "loop"
    /\ Exec(text, lastIndex).group = 1
    /\ LoopIteration

\* else if (match[3])
ItalicStar ==
    /\ inlinePc = "loop"
    /\ Exec(text, lastIndex).group = 3
    /\ LoopIteration

\* else if (match[5])
ItalicUnderscore ==
    /\ inlinePc = "loop"
    /\ Exec(text, lastIndex).group = 5
    /\ LoopIteration

\* else if (match[7])
CodeSpan ==
    /\ inlinePc = "loop"
    /\ Exec(text, lastIndex).group = 7
    /\ LoopIteration

\* else if (match[9] && match[10])
Link ==
    /\ inlinePc = "loop"
    /\ Exec(text, lastIndex).group = 9
    /\ LoopIteration

\* else if (match[11])
Mention ==
    /\ inlinePc = "loop"
    /\ Exec(text, lastIndex).group = 11
    /\ LoopIteration

\* exec returns null: trailing text, the non-empty guarantee, return nodes
InlineReturn ==
    /\ inlinePc = "loop"
    /\ Exec(text, lastIndex).group = 0
    /\ match' = NoMatch
    /\ nodes' = PushTrailing(text, lastIndex, nodes)
    /\ inlinePc' = "returned"
    /\ UNCHANGED <<text, lastIndex>>
    /\ UNCHANGED <<blockVars, toolVars>>

NextInline ==
    \/ Bold
    \/ ItalicStar
    \/ ItalicUnderscore
    \/ CodeSpan
    \/ Link
    \/ Mention
    \/ InlineReturn

SpecInline == InitInline /\ [][NextInline]_vars

----------------------------------------------------------------------------
(* Block parser: the tests on a line *)

Fence == <<Backtick, Backtick, Backtick>>

\* the bullet character U+2022
BulletChar == "BULLET"

BulletMarker == {"-", "*", "+", BulletChar}

\* trimmed.match(/^```(\w*)$/)
IsFenceOpen(t) ==
    /\ StartsWithAt(t, 0, Fence)
    /\ \A p \in 3..(Len(t) - 1) : t[p + 1] \in WordChar

\* codeMatch[1]
FenceLanguage(t) == Slice(t, 3, Len(t))

\* the closing test taking only a line of three backticks and nothing else
IsFenceCloseExact(line) == TrimEnd(line) = Fence

\* lines[i].trimEnd().startsWith("```")
IsFenceClose(line) == StartsWithAt(TrimEnd(line), 0, Fence)

\* /^(\*{3,}|-{3,}|_{3,})\s*$/.test(trimmed)
IsRule(t) ==
    \E c \in {"*", "-", "_"} :
        /\ RunLength(t, 0, {c}) >= 3
        /\ RunLength(t, RunLength(t, 0, {c}), WhiteSpace) = Len(t) - RunLength(t, 0, {c})

\* the heading pattern without the upper limit of six #
HeadingMatchAnyLevel(t) ==
    LET h == RunLength(t, 0, {"#"})
        w == RunLength(t, h, WhiteSpace)
        from == IF h + w < Len(t) THEN h + w ELSE h + w - 1 IN
    IF /\ h >= 1
       /\ from > h
       /\ from < Len(t)
       /\ \A p \in from..(Len(t) - 1) : t[p + 1] \notin LineTerminator
    THEN [level |-> h, from |-> from]
    ELSE [level |-> 0, from |-> 0]

\* trimmed.match(/^(#{1,6})\s+(.+)$/): the number of # and the offset of
\* group 2, or level 0 when there is no match
HeadingMatch(t) ==
    LET h == RunLength(t, 0, {"#"})
        w == RunLength(t, h, WhiteSpace)
        \* \s+ gives its last character back when nothing is left for (.+)
        from == IF h + w < Len(t) THEN h + w ELSE h + w - 1 IN
    IF /\ h >= 1
       /\ h <= 6
       /\ from > h
       /\ from < Len(t)
       /\ \A p \in from..(Len(t) - 1) : t[p + 1] \notin LineTerminator
    THEN [level |-> h, from |-> from]
    ELSE [level |-> 0, from |-> 0]

\* /^>\s?/.test(trimmed)
IsQuote(t) == CharAt(t, 0) = ">"

\* the marker removed and the whitespace character after it kept
StripQuoteMarkerOnly(line) ==
    IF CharAt(line, 0) = ">" THEN Slice(line, 1, Len(line)) ELSE line

\* line.replace(/^>\s?/, "")
StripQuote(line) ==
    IF CharAt(line, 0) # ">" THEN line
    ELSE IF CharAt(line, 1) \in WhiteSpace THEN Slice(line, 2, Len(line))
    ELSE Slice(line, 1, Len(line))

\* /^\|.+\|/.test(trimmed)
IsTableRow(t) ==
    /\ CharAt(t, 0) = "|"
    /\ \E e \in 2..(Len(t) - 1) :
          /\ t[e + 1] = "|"
          /\ \A p \in 1..(e - 1) : t[p + 1] \notin LineTerminator

\* /^\|[\s\-:|]+\|$/.test(s)
IsSeparator(s) ==
    /\ Len(s) >= 3
    /\ s[1] = "|"
    /\ s[Len(s)] = "|"
    /\ \A p \in 2..(Len(s) - 1) : s[p] \in WhiteSpace \cup {"-", ":", "|"}

\* the bullet prefix without the whitespace after the marker
BulletPrefixMarkerOnly(line) ==
    LET w0 == RunLength(line, 0, WhiteSpace)
        w1 == RunLength(line, w0 + 1, WhiteSpace) IN
    IF CharAt(line, w0) \in BulletMarker /\ w1 >= 1 THEN w0 + 1 ELSE 0

\* the length of the match of /^[\s]*[-*+<bullet>]\s+/ in line, 0 when there is none
BulletPrefix(line) ==
    LET w0 == RunLength(line, 0, WhiteSpace)
        w1 == RunLength(line, w0 + 1, WhiteSpace) IN
    IF CharAt(line, w0) \in BulletMarker /\ w1 >= 1 THEN w0 + 1 + w1 ELSE 0

\* the length of the match of /^[\s]*\d+\.\s+/ in line, 0 when there is none
OrderedPrefix(line) ==
    LET w0 == RunLength(line, 0, WhiteSpace)
        d == RunLength(line, w0, Digit)
        w1 == RunLength(line, w0 + d + 1, WhiteSpace) IN
    IF d >= 1 /\ CharAt(line, w0 + d) = "." /\ w1 >= 1 THEN w0 + d + 1 + w1 ELSE 0

\* number of consecutive lines from offset i on whose flag is set
RunOfLines(flags, i) ==
    LET stop == {k \in i..(Len(flags) - 1) : ~flags[k + 1]} IN
    IF i >= Len(flags) THEN 0
    ELSE IF stop = {} THEN Len(flags) - i ELSE Min(stop) - i

----------------------------------------------------------------------------
(* Block parser: the nodes *)

Paragraph(inline) == [type |-> "paragraph", content |-> inline]

ListItem(itemText) == [type |-> "listItem", content |-> <<Paragraph(parseInline(itemText))>>]

\* the paragraph pushed for a document without blocks, with an empty content
EmptyParagraphNoText == [type |-> "paragraph", content |-> <<>>]

\* { type: "paragraph", content: [{ type: "text", text: "" }] }
EmptyParagraph == [type |-> "paragraph", content |-> <<TextNode(<<>>)>>]

\* the code block with the language attribute always set
CodeBlockAlwaysTagged(codeLines, language) ==
    [type |-> "codeBlock", content |-> <<TextNode(JoinLines(codeLines))>>,
     attrs |-> [language |-> language]]

\* const codeBlock = {...}; if (language) codeBlock.attrs = { language };
CodeBlock(codeLines, language) ==
    IF language # <<>>
    THEN [type |-> "codeBlock", content |-> <<TextNode(JoinLines(codeLines))>>,
          attrs |-> [language |-> language]]
    ELSE [type |-> "codeBlock", content |-> <<TextNode(JoinLines(codeLines))>>]

\* String.prototype.split("|")
RECURSIVE SplitCells(_)
SplitCells(s) ==
    LET N == {p \in 0..(Len(s) - 1) : s[p + 1] = "|"} IN
    IF N = {} THEN <<s>>
    ELSE <<Slice(s, 0, Min(N))>> \o SplitCells(Slice(s, Min(N) + 1, Len(s)))

\* line.replace(/^\|/, "").replace(/\|$/, "").split("|").map((c) => c.trim())
TableCells(line) ==
    LET a == IF CharAt(line, 0) = "|" THEN Slice(line, 1, Len(line)) ELSE line
        b == IF Len(a) > 0 /\ a[Len(a)] = "|" THEN Slice(a, 0, Len(a) - 1) ELSE a
        cells == SplitCells(b) IN
    [k \in 1..Len(cells) |-> Trim(cells[k])]

TableRow(line, isHeader) ==
    LET cells == TableCells(line) IN
    [type |-> "tableRow",
     content |-> [k \in 1..Len(cells) |->
                    [type |-> IF isHeader THEN "tableHeader" ELSE "tableCell",
                     attrs |-> <<>>,
                     content |-> <<Paragraph(parseInline(cells[k]))>>]]]

\* the for loop of parseTableBlock from offset i on
RECURSIVE TableRows(_, _)
TableRows(lines, i) ==
    IF i >= Len(lines) THEN <<>>
    ELSE IF IsSeparator(Trim(lines[i + 1])) THEN TableRows(lines, i + 1)
    ELSE <<TableRow(Trim(lines[i + 1]), i = 0)>> \o TableRows(lines, i + 1)

parseTableBlock(lines) ==
    [type |-> "table",
     attrs |-> [isNumberColumnEnabled |-> FALSE, layout |-> "default"],
     content |-> TableRows(lines, 0)]

\* flushParagraph(paraLines): the blocks after the call
flushParagraph(blocks, paraLines) ==
    IF Len(paraLines) = 0 THEN blocks
    ELSE IF Trim(JoinLines(paraLines)) = <<>> THEN blocks
    ELSE Append(blocks, Paragraph(parseInline(JoinLines(paraLines))))

\* the content of the returned document, without the guard for no blocks
DocContentUnguarded(blocks) == blocks

\* if (blocks.length === 0) blocks.push(<empty paragraph>); content: blocks
DocContent(blocks) == IF Len(blocks) = 0 THEN <<EmptyParagraph>> ELSE blocks

Doc(blocks) == [version |-> 1, type |-> "doc", content |-> DocContent(blocks)]

----------------------------------------------------------------------------
(* Block parser as a state machine: one action per branch of the line loop. *)
(* stack[c] holds the activation records of caller c's call of             *)
(* markdownToAdf and of the calls it makes for blockquotes.                *)

Callers == 1..NumCallers

\* the locals of a call that starts with the blocks of an earlier call
NewFrameKeepingBlocks(md) ==
    [markdown |-> md, lines |-> SplitLines(md), i |-> 0,
     blocks |-> IF returned = {} THEN <<>> ELSE (CHOOSE r \in returned : TRUE)[2].content,
     paragraphBuffer |-> <<>>]

\* const lines = markdown.split("\n"); const blocks = []; let i = 0; let paragraphBuffer = [];
NewFrame(md) ==
    [markdown |-> md, lines |-> SplitLines(md), i |-> 0, blocks |-> <<>>, paragraphBuffer |-> <<>>]

Top(c) == stack[c][Len(stack[c])]

\* the branches with a table row starting a table whatever line follows it
BranchTableWithoutSeparator(lines, i) ==
    LET line == lines[i + 1]
        trimmed == TrimEnd(line) IN
    IF IsFenceOpen(trimmed) THEN "fence"
    ELSE IF IsRule(trimmed) THEN "rule"
    ELSE IF HeadingMatch(trimmed).level > 0 THEN "heading"
    ELSE IF IsQuote(trimmed) THEN "quote"
    ELSE IF IsTableRow(trimmed) THEN "table"
    ELSE IF BulletPrefix(line) > 0 THEN "bullet"
    ELSE IF OrderedPrefix(line) > 0 THEN "ordered"
    ELSE IF trimmed = <<>> THEN "blank"
    ELSE "text"

\* the branch the loop body takes for lines[i]
Branch(lines, i) ==
    LET line == lines[i + 1]
        trimmed == TrimEnd(line)
        nextLine == IF i + 1 < Len(lines) THEN Trim(lines[i + 2]) ELSE <<>> IN
    IF IsFenceOpen(trimmed) THEN "fence"
    ELSE IF IsRule(trimmed) THEN "rule"
    ELSE IF HeadingMatch(trimmed).level > 0 THEN "heading"
    ELSE IF IsQuote(trimmed) THEN "quote"
    ELSE IF IsTableRow(trimmed) /\ IsSeparator(nextLine) THEN "table"
    ELSE IF BulletPrefix(line) > 0 THEN "bullet"
    ELSE IF OrderedPrefix(line) > 0 THEN "ordered"
    ELSE IF trimmed = <<>> THEN "blank"
    ELSE "text"

\* while (i < lines.length) and the branch taken
At(c, branch) ==
    /\ stack[c] # <<>>
    /\ Top(c).i < Len(Top(c).lines)
    /\ Branch(Top(c).lines, Top(c).i) = branch

\* the new block pushed before the pending paragraph
EmittedBeforeFlush(f, pushed, newI) ==
    [f EXCEPT !.blocks = flushParagraph(f.blocks \o pushed, f.paragraphBuffer),
              !.paragraphBuffer = <<>>,
              !.i = newI]

\* flushParagraph(paragraphBuffer); paragraphBuffer = []; blocks.push(...); i moves on
Emitted(f, pushed, newI) ==
    [f EXCEPT !.blocks = flushParagraph(f.blocks, f.paragraphBuffer) \o pushed,
              !.paragraphBuffer = <<>>,
              !.i = newI]

ReplaceTop(c, f) ==
    /\ stack' = [stack EXCEPT ![c] = [@ EXCEPT ![Len(@)] = f]]
    /\ UNCHANGED <<markdown, result, returned>>
    /\ UNCHANGED <<inlineVars, toolVars>>

\* the offset of the closing fence of the block opened at i, lines.length when there is none
FenceEnd(lines, i) ==
    i + 1 + RunOfLines([k \in 1..Len(lines) |-> ~IsFenceClose(lines[k])], i + 1)

FencedCode(c) ==
    /\ At(c, "fence")
    /\ LET f == Top(c)
           end == FenceEnd(f.lines, f.i)
           codeLines == SubSeq(f.lines, f.i + 2, end)
           language == FenceLanguage(TrimEnd(f.lines[f.i + 1])) IN
       ReplaceTop(c, Emitted(f, <<CodeBlock(codeLines, language)>>, end + 1))

HorizontalRule(c) ==
    /\ At(c, "rule")
    /\ ReplaceTop(c, Emitted(Top(c), <<[type |-> "rule"]>>, Top(c).i + 1))

Heading(c) ==
    /\ At(c, "heading")
    /\ LET f == Top(c)
           trimmed == TrimEnd(f.lines[f.i + 1])
           headingMatch == HeadingMatch(trimmed)
           level == IF headingMatch.level < 6 THEN headingMatch.level ELSE 6 IN
       ReplaceTop(c, Emitted(f,
           <<[type |-> "heading", attrs |-> [level |-> level],
              content |-> parseInline(Slice(trimmed, headingMatch.from, Len(trimmed)))]>>,
           f.i + 1))

\* the quote lines from offset i on, each without its marker
QuoteLines(lines, i) ==
    LET n == RunOfLines([k \in 1..Len(lines) |-> IsQuote(TrimEnd(lines[k]))], i) IN
    [k \in 1..n |-> StripQuote(lines[i + k])]

\* the blockquote branch up to the call markdownToAdf(innerMarkdown)
Blockquote(c) ==
    /\ At(c, "quote")
    /\ Len(stack[c]) < CallStackLimit
    /\ LET f == Top(c)
           quoteLines == QuoteLines(f.lines, f.i)
           innerMarkdown == JoinLines(quoteLines) IN
       stack' = [stack EXCEPT ![c] =
                    Append([@ EXCEPT ![Len(@)] = Emitted(f, <<>>, f.i + Len(quoteLines))],
                           NewFrame(innerMarkdown))]
    /\ UNCHANGED <<markdown, result, returned>>
    /\ UNCHANGED <<inlineVars, toolVars>>

\* what the engine throws when a call finds no room on the call stack
RangeError == [type |-> "RangeError", content |-> <<>>]

\* the call markdownToAdf(innerMarkdown) with the call stack full: the
\* RangeError leaves every activation, none of which catches it, and
\* reaches caller c
StackOverflow(c) ==
    /\ At(c, "quote")
    /\ Len(stack[c]) = CallStackLimit
    /\ result' = [result EXCEPT ![c] = RangeError]
    /\ returned' = returned \cup {<<markdown[c], RangeError>>}
    /\ stack' = [stack EXCEPT ![c] = <<>>]
    /\ UNCHANGED markdown
    /\ UNCHANGED <<inlineVars, toolVars>>

Table(c) ==
    /\ At(c, "table")
    /\ LET f == Top(c)
           n == RunOfLines([k \in 1..Len(f.lines) |-> IsTableRow(TrimEnd(f.lines[k]))], f.i)
           tableLines == SubSeq(f.lines, f.i + 1, f.i + n) IN
       ReplaceTop(c, Emitted(f, <<parseTableBlock(tableLines)>>, f.i + n))

\* the items of the bullet lines from offset i on that have the marker of the first
BulletItemsSameMarker(lines, i) ==
    LET marker == CharAt(lines[i + 1], RunLength(lines[i + 1], 0, WhiteSpace))
        n == RunOfLines([k \in 1..Len(lines) |->
                            /\ BulletPrefix(lines[k]) > 0
                            /\ CharAt(lines[k], RunLength(lines[k], 0, WhiteSpace)) = marker], i) IN
    [k \in 1..n |-> ListItem(Slice(lines[i + k], BulletPrefix(lines[i + k]), Len(lines[i + k])))]

\* the items of the run of bullet lines from offset i on
BulletItems(lines, i) ==
    LET n == RunOfLines([k \in 1..Len(lines) |-> BulletPrefix(lines[k]) > 0], i) IN
    [k \in 1..n |-> ListItem(Slice(lines[i + k], BulletPrefix(lines[i + k]), Len(lines[i + k])))]

BulletList(c) ==
    /\ At(c, "bullet")
    /\ LET f == Top(c)
           items == BulletItems(f.lines, f.i) IN
       ReplaceTop(c, Emitted(f, <<[type |-> "bulletList", content |-> items]>>, f.i + Len(items)))

\* the items of the run of ordered-list lines from offset i on
OrderedItems(lines, i) ==
    LET n == RunOfLines([k \in 1..Len(lines) |-> OrderedPrefix(lines[k]) > 0], i) IN
    [k \in 1..n |-> ListItem(Slice(lines[i + k], OrderedPrefix(lines[i + k]), Len(lines[i + k])))]

OrderedList(c) ==
    /\ At(c, "ordered")
    /\ LET f == Top(c)
           items == OrderedItems(f.lines, f.i) IN
       ReplaceTop(c, Emitted(f, <<[type |-> "orderedList", content |-> items]>>, f.i + Len(items)))

BlankLine(c) ==
    /\ At(c, "blank")
    /\ ReplaceTop(c, Emitted(Top(c), <<>>, Top(c).i + 1))

\* the line pushed as it is
ParagraphLineUntrimmed(c) ==
    /\ At(c, "text")
    /\ LET f == Top(c) IN
       ReplaceTop(c, [f EXCEPT !.paragraphBuffer = Append(@, f.lines[f.i + 1]),
                               !.i = @ + 1])

\* paragraphBuffer.push(trimmed); i++
ParagraphLine(c) ==
    /\ At(c, "text")
    /\ LET f == Top(c) IN
       ReplaceTop(c, [f EXCEPT !.paragraphBuffer = Append(@, TrimEnd(f.lines[f.i + 1])),
                               !.i = @ + 1])

\* the loop is over in a call made for a blockquote: its document goes to
\* the caller, which pushes the blockquote
QuoteReturn(c) ==
    /\ Len(stack[c]) > 1
    /\ Top(c).i >= Len(Top(c).lines)
    /\ LET innerDoc == Doc(flushParagraph(Top(c).blocks, Top(c).paragraphBuffer))
           caller == stack[c][Len(stack[c]) - 1] IN
       stack' = [stack EXCEPT ![c] =
                    Append(SubSeq(@, 1, Len(@) - 2),
                           [caller EXCEPT !.blocks =
                               Append(@, [type |-> "blockquote", content |-> innerDoc.content])])]
    /\ UNCHANGED <<markdown, result, returned>>
    /\ UNCHANGED <<inlineVars, toolVars>>

\* the loop is over in the outermost call: the document goes to caller c
Return(c) ==
    /\ Len(stack[c]) = 1
    /\ Top(c).i >= Len(Top(c).lines)
    /\ result' = [result EXCEPT ![c] = Doc(flushParagraph(Top(c).blocks, Top(c).paragraphBuffer))]
    /\ returned' = returned \cup {<<markdown[c], result'[c]>>}
    /\ stack' = [stack EXCEPT ![c] = <<>>]
    /\ UNCHANGED markdown
    /\ UNCHANGED <<inlineVars, toolVars>>

----------------------------------------------------------------------------
(* The inputs *)

RECURSIVE QuoteMarkers(_)
QuoteMarkers(k) == IF k = 0 THEN <<>> ELSE <<">">> \o QuoteMarkers(k - 1)

BlockLines ==
    { <<>>,
      <<"*", "x", "*", " ">>,
      Fence,
      <<"-", "-", "-">>,
      <<"#", " ", "h">>,
      <<"-", " ", "a">>,
      <<"1", ".", " ", "c">>,
      <<"|", " ", "A", " ", "|">>,
      <<"|", "-", "-", "-", "|">> }
    \cup {QuoteMarkers(k) \o <<" ", "q">> : k \in 1..MaxQuoteDepth}

\* the fenced block of the specification's examples
FencedJs ==
    <<Backtick, Backtick, Backtick, "j", "s", "\n", "c", "o", "d", "e",
      "\n", Backtick, Backtick, Backtick>>

\* a fenced block holding lines of other constructs, closed by a fence with a tag
FencedConstructs ==
    <<Backtick, Backtick, Backtick, "\n", "#", " ", "h", "\n", "-", " ",
      "*", "a", "*", "\n", ">", " ", "q", "\n", Backtick, Backtick,
      Backtick, "j", "s", "\n", "*", "x", "*">>

\* the list of the specification's examples
ListAbc ==
    <<"-", " ", "a", "\n", "-", " ", "b", "\n", "-", " ", "c">>

\* bullet lines with every marker, indentation and trailing space
MixedBullets ==
    <<" ", "+", " ", "*", "b", "*", " ", "\n", "*", " ", "c", "\n",
      BulletChar, " ", "d", "\n", "-", " ", " ", "\n", "1", ".", " ", "e",
      "\n", "2", ".", " ", " ", "f">>

\* the table of the specification's examples
TableAb ==
    <<"|", " ", "A", " ", "|", " ", "B", " ", "|", "\n", "|", "-", "-", "-",
      "|", "-", "-", "-", "|", "\n", "|", " ", "1", " ", "|", " ", "2", " ",
      "|">>

\* the paragraph of the specification's examples
BoldAndItalicLine == BoldAndItalic

\* whitespace-only lines
WhiteSpaceLines ==
    <<" ", "\n", "\t", "\n", " ", " ">>

\* quotes nested two deep, an empty quote and a heading in a quote
NestedQuotes ==
    <<">", ">", " ", "q", "\n", ">", "\n", ">", " ", "#", " ", "h">>

\* a quote nested one deeper than the call stack has room for
DeepQuotes == QuoteMarkers(CallStackLimit) \o <<" ", "q">>

\* delimiters inside delimiters: **_x_** [*y*](u)
NestedDelimiters ==
    <<"*", "*", "_", "x", "_", "*", "*", " ", "[", "*", "y", "*", "]", "(", "u", ")">>

\* lines of two, six and seven #, of # without whitespace, of # without
\* text, and a heading with inline syntax and trailing whitespace
HeadingLevels ==
    <<"#", "#", " ", "a", "\n",
      "#", "#", "#", "#", "#", "#", "\t", "b", "\n",
      "#", "#", "#", "#", "#", "#", "#", " ", "c", "\n",
      "#", "d", "\n",
      "#", " ", "\n",
      "#", " ", " ", "*", "e", "*", " ">>

\* rule lines with whitespace after, before and around them, after a paragraph line
PaddedRules ==
    <<"x", "\n", "*", "*", "*", " ", "\n", " ", "-", "-", "-", "\n",
      "\t", "_", "_", "_", "_", " ">>

BlockExamples ==
    { FencedJs, FencedConstructs, ListAbc, MixedBullets,
      TableAb, BoldAndItalicLine, WhiteSpaceLines, NestedQuotes, DeepQuotes,
      NestedDelimiters, HeadingLevels, PaddedRules }

BlockInputs ==
    {JoinLines(ls) : ls \in UNION {[1..n -> BlockLines] : n \in 1..MaxLines}}
        \cup BlockExamples

Init ==
    /\ InlineIdle
    /\ BlockIdle
    /\ ToolIdle

\* the one call of this specification: caller 1 calls markdownToAdf(md)
Convert ==
    /\ stack[1] = <<>>
    /\ returned = {}
    /\ \E md \in BlockInputs :
          /\ markdown' = [markdown EXCEPT ![1] = md]
          /\ stack' = [stack EXCEPT ![1] = <<NewFrame(md)>>]
    /\ UNCHANGED <<result, returned>>
    /\ UNCHANGED <<inlineVars, toolVars>>

Step(c) ==
    \/ FencedCode(c)
    \/ HorizontalRule(c)
    \/ Heading(c)
    \/ Blockquote(c)
    \/ StackOverflow(c)
    \/ QuoteReturn(c)
    \/ Table(c)
    \/ BulletList(c)
    \/ OrderedList(c)
    \/ BlankLine(c)
    \/ ParagraphLine(c)
    \/ Return(c)

Next == Convert \/ Step(1)

Spec == Init /\ [][Next]_vars

----------------------------------------------------------------------------
(* Several callers, each calling markdownToAdf any number of times *)

\* one line of every construct
AllConstructs ==
    <<Backtick, Backtick, Backtick, "\n", Backtick, Backtick, Backtick,
      "\n", "-", "-", "-", "\n", "#", " ", "h", "\n", "|", " ", "A", " ",
      "|", "\n", "|", "-", "-", "-", "|", "\n", "-", " ", "a", "\n", "1",
      ".", " ", "c", "\n", "\n", "*", "x", "*", " ", "\n", ">", " ", "q">>

CallInputs == {<<>>, AllConstructs, DeepQuotes}

\* caller c calls markdownToAdf(md)
Call(c) ==
    /\ stack[c] = <<>>
    /\ \E md \in CallInputs :
          /\ markdown' = [markdown EXCEPT ![c] = md]
          /\ stack' = [stack EXCEPT ![c] = <<NewFrame(md)>>]
    /\ result' = [result EXCEPT ![c] = NoDoc]
    /\ UNCHANGED returned
    /\ UNCHANGED <<inlineVars, toolVars>>

NextCalls == \E c \in Callers : Call(c) \/ Step(c)

SpecCalls == Init /\ [][NextCalls]_vars

----------------------------------------------------------------------------
(* Properties *)

Contains(s, lit) == \E p \in 0..(Len(s) - Len(lit)) : StartsWithAt(s, p, lit)

\* caller c's call is over and gave a document
Returned(c) == result[c].type = "doc"

\* caller c's call is over and threw
Threw(c) == result[c] = RangeError

\* C1: what markdownToAdf returns, to its caller and to itself for a
\* blockquote, is a document {version: 1, type: "doc"} with at least one
\* block in its content.
C1_ContentNonEmpty ==
    /\ \A c \in Callers :
          (result[c] # NoDoc /\ ~Threw(c)) =>
              /\ result[c].version = 1
              /\ result[c].type = "doc"
              /\ Len(result[c].content) >= 1
    /\ \A c \in Callers : \A n \in 1..Len(stack[c]) : \A k \in 1..Len(stack[c][n].blocks) :
          stack[c][n].blocks[k].type = "blockquote" => Len(stack[c][n].blocks[k].content) >= 1

C1_Witness ==
    /\ Returned(1)
    /\ Len(result[1].content) >= 2
    /\ \E k \in 1..Len(result[1].content) : result[1].content[k].type = "blockquote"

OnlyWhiteSpace(s) == \A p \in 1..Len(s) : s[p] \in WhiteSpace

\* C2: for the empty input and for an input of blank and whitespace-only
\* lines, the content of the document is one paragraph holding one text
\* node with the empty text and no marks.
C2_BlankInputGivesEmptyParagraph ==
    \A c \in Callers :
        (Returned(c) /\ OnlyWhiteSpace(markdown[c])) =>
            result[c].content =
                <<[type |-> "paragraph", content |-> <<[type |-> "text", text |-> <<>>]>>]>>

C2_Witness ==
    /\ Returned(1)
    /\ markdown[1] = WhiteSpaceLines

\* every step of a call either moves the line index of the running
\* activation forward by at least one (calling markdownToAdf for a
\* blockquote included), or is the return of an activation whose loop is over
ScanAdvances ==
    \A c \in Callers :
        LET n == Len(stack[c]) IN
        (n > 0 /\ stack'[c] # stack[c]) =>
            \/ /\ Len(stack'[c]) \in {n, n + 1}
               /\ stack'[c][n].i >= stack[c][n].i + 1
               /\ stack'[c][n].i <= Len(stack[c][n].lines) + 1
               /\ \A k \in 1..(n - 1) : stack'[c][k] = stack[c][k]
            \/ /\ Len(stack'[c]) = n - 1
               /\ stack[c][n].i >= Len(stack[c][n].lines)
               /\ \A k \in 1..(n - 1) : stack'[c][k].i = stack[c][k].i
               /\ n = 1 => Returned(c)'

\* every call made for a blockquote gets a text shorter than its caller's
QuoteTextShorter ==
    \A c \in Callers : \A n \in 2..Len(stack[c]) :
        Len(stack[c][n].markdown) < Len(stack[c][n - 1].markdown)

\* the characters of the lines from offset i on, each line counted with its newline
RECURSIVE CharsFrom(_, _)
CharsFrom(lines, i) ==
    IF i >= Len(lines) THEN 0 ELSE Len(lines[i + 1]) + 1 + CharsFrom(lines, i + 1)

\* what is left to do in the activations of caller c: twice the characters
\* not yet scanned, and one for the return, of each
RECURSIVE Rank(_, _)
Rank(c, n) ==
    IF n = 0 THEN 0
    ELSE 2 * CharsFrom(stack[c][n].lines, stack[c][n].i) + 1 + Rank(c, n - 1)

RECURSIVE RankNext(_, _)
RankNext(c, n) ==
    IF n = 0 THEN 0
    ELSE 2 * CharsFrom(stack'[c][n].lines, stack'[c][n].i) + 1 + RankNext(c, n - 1)

\* every step of a running call makes its rank, a natural number, smaller
RankDecreases ==
    \A c \in Callers :
        (Len(stack[c]) > 0 /\ stack'[c] # stack[c]) =>
            RankNext(c, Len(stack'[c])) < Rank(c, Len(stack[c]))

\* no step of a call raises an error
NothingThrown == \A c \in Callers : ~Threw(c)'

\* C3: markdownToAdf ends with a document and raises nothing: each
\* iteration of the line loop, whichever branch it takes, advances the line
\* index by at least one and never beyond one past the last line, each call
\* made for a blockquote receives a text strictly shorter than its
\* caller's, every other step is the return of a document by a call whose
\* loop is over, every step lowers a natural-number rank, so no call runs
\* for ever, and no step raises an error.
C3_Terminates ==
    /\ [][NothingThrown]_vars
    /\ [][ScanAdvances]_vars
    /\ [][RankDecreases]_vars
    /\ [](QuoteTextShorter)

\* C4: a call's document depends on its argument only: whatever calls ran
\* before it or are in progress, the document of a returned call equals
\* the document every other call with the same argument returned.
C4_Deterministic ==
    \A c \in Callers : \A r \in returned :
        (Returned(c) /\ r[1] = markdown[c]) => r[2] = result[c]

C4_Witness ==
    /\ Returned(1)
    /\ Returned(2)
    /\ markdown[1] = AllConstructs
    /\ markdown[2] = AllConstructs
    /\ Cardinality(returned) = Cardinality(CallInputs)

\* C5: some maximum depth, one the call stack has room for, bounds the
\* nesting of the calls made for blockquotes: no call nests deeper, and a
\* conversion that ends without a document, its input nesting deeper than
\* the maximum, reports "nesting too deep".
C5_NestingGuard ==
    \E d \in 1..(CallStackLimit - 1) :
        \A c \in Callers :
            /\ Len(stack[c]) - 1 <= d
            /\ result[c].type \in {"none", "doc", "nesting too deep"}

----------------------------------------------------------------------------
(* Properties of the inline parser *)

\* the ends of the spans (.+?) that the bold pattern can take at offset p
BoldSpanEnds(s, p) ==
    {e \in (p + 3)..(Len(s) - 2) :
        /\ s[e + 1] = "*"
        /\ s[e + 2] = "*"
        /\ \A q \in (p + 2)..(e - 1) : s[q + 1] \notin {"\n", "\r"}}

BoldCouldMatch(s, p) ==
    /\ CharAt(s, p) = "*"
    /\ CharAt(s, p + 1) = "*"
    /\ BoldSpanEnds(s, p) # {}

ItalicCouldMatch(s, p) ==
    /\ CharAt(s, p) = "*"
    /\ \E e \in (p + 2)..(Len(s) - 1) :
          /\ s[e + 1] = "*"
          /\ \A q \in (p + 1)..(e - 1) : s[q + 1] \notin {"\n", "\r"}

\* C6: where bold and italic could both match at the offset of a match,
\* the node pushed is the text of the shortest bold span with the strong
\* mark only; **x** gives one strong "x", and "**bold** and *italic*"
\* gives strong "bold", unmarked " and ", em "italic".
C6_BoldBeforeItalic ==
    /\ (/\ inlinePc = "loop"
        /\ match.group # 0
        /\ BoldCouldMatch(text, match.index)
        /\ ItalicCouldMatch(text, match.index)) =>
            nodes[Len(nodes)] =
                [type |-> "text",
                 text |-> SubSeq(text, match.index + 3, Min(BoldSpanEnds(text, match.index))),
                 marks |-> <<[type |-> "strong"]>>]
    /\ (inlinePc = "returned" /\ text = <<"*", "*", "x", "*", "*">>) =>
            nodes = <<[type |-> "text", text |-> <<"x">>, marks |-> <<[type |-> "strong"]>>]>>
    /\ (inlinePc = "returned" /\ text = BoldAndItalic) =>
            nodes = << [type |-> "text", text |-> <<"b", "o", "l", "d">>,
                        marks |-> <<[type |-> "strong"]>>],
                       [type |-> "text", text |-> <<" ", "a", "n", "d", " ">>],
                       [type |-> "text", text |-> <<"i", "t", "a", "l", "i", "c">>,
                        marks |-> <<[type |-> "em"]>>] >>

C6_Witness ==
    /\ inlinePc = "returned"
    /\ text = BoldAndItalic
    /\ Len(nodes) = 3

\* the text opens with ** as its first asterisks, no second ** follows, and
\* no other delimiter character occurs
StrayBold(s) ==
    /\ Cardinality({p \in 0..(Len(s) - 2) : StartsWithAt(s, p, <<"*", "*">>)}) = 1
    /\ \E p \in 0..(Len(s) - 2) :
          /\ StartsWithAt(s, p, <<"*", "*">>)
          /\ \A q \in 0..(p - 1) : s[q + 1] # "*"
    /\ \A q \in 1..Len(s) : s[q] \notin {"_", Backtick, "[", "@"}

\* C7: an opening ** with no closing ** after it gets no mark: its two
\* characters are part of an unmarked text node.
C7_StrayDelimiterIsLiteral ==
    (inlinePc = "returned" /\ StrayBold(text)) =>
        /\ \A k \in 1..Len(nodes) : "marks" \notin DOMAIN nodes[k]
        /\ \E k \in 1..Len(nodes) :
              /\ nodes[k].type = "text"
              /\ Contains(nodes[k].text, <<"*", "*">>)

\* the account id of the token @accountId:ID at offset p, empty when there is none
TokenId(s, p) ==
    IF StartsWithAt(s, p, AccountIdPrefix)
    THEN Slice(s, p + 11, p + 11 + RunLength(s, p + 11, AccountIdChar))
    ELSE <<>>

\* C8: wherever a token @accountId:ID occurs in the text, the nodes hold a
\* mention with attrs.id = ID, attrs.text = "@" then ID, attrs.accessLevel = "".
C8_MentionEverywhere ==
    inlinePc = "returned" =>
        \A p \in 0..(Len(text) - 1) :
            TokenId(text, p) # <<>> =>
                \E k \in 1..Len(nodes) :
                    nodes[k] = [type |-> "mention",
                                attrs |-> [id |-> TokenId(text, p),
                                           text |-> <<"@">> \o TokenId(text, p),
                                           accessLevel |-> <<>>]]

----------------------------------------------------------------------------
(* Properties of the block constructs *)

\* three backticks and then word characters only
OpensFence(line) ==
    /\ Len(line) >= 3
    /\ \A p \in 1..3 : line[p] = Backtick
    /\ \A p \in 4..Len(line) : line[p] \in WordChar

\* the offset of the first line after offset i that starts with three
\* backticks, the number of lines when there is none
ClosingFence(lines, i) ==
    LET J == {j \in (i + 1)..(Len(lines) - 1) :
                 Len(lines[j + 1]) >= 3 /\ \A p \in 1..3 : lines[j + 1][p] = Backtick} IN
    IF J = {} THEN Len(lines) ELSE Min(J)

FencedBlock(lines, i) ==
    LET tag == SubSeq(lines[i + 1], 4, Len(lines[i + 1]))
        body == JoinLines(SubSeq(lines, i + 2, ClosingFence(lines, i))) IN
    IF tag = <<>>
    THEN [type |-> "codeBlock", content |-> <<[type |-> "text", text |-> body]>>]
    ELSE [type |-> "codeBlock", content |-> <<[type |-> "text", text |-> body]>>,
          attrs |-> [language |-> tag]]

\* C9: at a line of three backticks and an optional word-character tag the
\* scan pushes, after the pending paragraph, exactly one codeBlock: one
\* unmarked text node holding the lines up to the closing fence (or the end
\* of input) joined by newlines, attrs.language present exactly for a
\* non-empty tag; it goes on after the closing fence, so the lines inside
\* give no other block.
C9_FencedCodeBlock ==
    [][\A c \in Callers :
          LET n == Len(stack[c]) IN
          (/\ n > 0
           /\ stack'[c] # stack[c]
           /\ Top(c).i < Len(Top(c).lines)
           /\ OpensFence(Top(c).lines[Top(c).i + 1])) =>
              /\ Len(stack'[c]) = n
              /\ stack'[c][n].blocks =
                    flushParagraph(Top(c).blocks, Top(c).paragraphBuffer)
                        \o <<FencedBlock(Top(c).lines, Top(c).i)>>
              /\ stack'[c][n].paragraphBuffer = <<>>
              /\ stack'[c][n].i = ClosingFence(Top(c).lines, Top(c).i) + 1]_vars

C9_Witness ==
    /\ Returned(1)
    /\ markdown[1] = FencedConstructs
    /\ Len(result[1].content) = 2
    /\ result[1].content[1].type = "codeBlock"

\* a list line: optional whitespace, the marker, at least one whitespace character
IsBulletLine(line) ==
    LET p == RunLength(line, 0, WhiteSpace) IN
    /\ CharAt(line, p) \in {"-", "*", "+", BulletChar}
    /\ CharAt(line, p + 1) \in WhiteSpace

IsOrderedLine(line) ==
    LET p == RunLength(line, 0, WhiteSpace)
        d == RunLength(line, p, Digit) IN
    /\ d >= 1
    /\ CharAt(line, p + d) = "."
    /\ CharAt(line, p + d + 1) \in WhiteSpace

\* the text of a list line after the marker and the whitespace behind it
TextAfterMarker(line) ==
    LET p == RunLength(line, 0, WhiteSpace)
        m == IF IsBulletLine(line) THEN p + 1 ELSE p + RunLength(line, p, Digit) + 1 IN
    Slice(line, m + RunLength(line, m, WhiteSpace), Len(line))

\* the number of list lines of one kind from offset i on
BulletRun(lines, i) == RunOfLines([k \in 1..Len(lines) |-> IsBulletLine(lines[k])], i)

OrderedRun(lines, i) == RunOfLines([k \in 1..Len(lines) |-> IsOrderedLine(lines[k])], i)

ListOf(type, lines, i, count) ==
    [type |-> type,
     content |-> [k \in 1..count |->
                    [type |-> "listItem",
                     content |-> <<[type |-> "paragraph",
                                    content |-> parseInline(TextAfterMarker(lines[i + k]))]>>]]]

ExpectedList(lines, i) ==
    IF IsBulletLine(lines[i + 1])
    THEN ListOf("bulletList", lines, i, BulletRun(lines, i))
    ELSE ListOf("orderedList", lines, i, OrderedRun(lines, i))

\* C10: at a run of N consecutive bullet lines the scan pushes, after the
\* pending paragraph, exactly one bulletList of N listItems in source order,
\* each holding one paragraph with the inline rendering of its line's text
\* after the marker, and goes on after the run; likewise an orderedList for
\* a run of ordered-list lines.
C10_ListRun ==
    [][\A c \in Callers :
          LET n == Len(stack[c]) IN
          (/\ n > 0
           /\ stack'[c] # stack[c]
           /\ Top(c).i < Len(Top(c).lines)
           /\ (IsBulletLine(Top(c).lines[Top(c).i + 1])
                 \/ IsOrderedLine(Top(c).lines[Top(c).i + 1]))) =>
              /\ Len(stack'[c]) = n
              /\ stack'[c][n].blocks =
                    flushParagraph(Top(c).blocks, Top(c).paragraphBuffer)
                        \o <<ExpectedList(Top(c).lines, Top(c).i)>>
              /\ Len(ExpectedList(Top(c).lines, Top(c).i).content) >= 1
              /\ stack'[c][n].i =
                    Top(c).i + Len(ExpectedList(Top(c).lines, Top(c).i).content)]_vars

C10_Witness ==
    /\ Returned(1)
    /\ markdown[1] = MixedBullets
    /\ Len(result[1].content) = 2
    /\ result[1].content[1].type = "bulletList"
    /\ Len(result[1].content[1].content) = 4
    /\ result[1].content[2].type = "orderedList"
    /\ Len(result[1].content[2].content) = 2

----------------------------------------------------------------------------
(* Properties of tables, malformed tables and blockquotes *)

\* the rows of the lines of a table after the first: none for a line of the
\* separator pattern, a row of tableCell cells for every other line
RECURSIVE LaterRows(_, _)
LaterRows(lines, k) ==
    IF k > Len(lines) THEN <<>>
    ELSE IF IsSeparator(Trim(lines[k])) THEN LaterRows(lines, k + 1)
    ELSE <<TableRow(Trim(lines[k]), FALSE)>> \o LaterRows(lines, k + 1)

\* a row of tableHeader cells for the first line, then the rows of the later lines
HeaderThenRows(lines) == <<TableRow(Trim(lines[1]), TRUE)>> \o LaterRows(lines, 2)

\* the step of caller c is the table branch
TableStep(c) ==
    /\ At(c, "table")
    /\ stack'[c] # stack[c]

\* the lines the table branch consumes in this step
TableLines(c) ==
    SubSeq(Top(c).lines, Top(c).i + 1, stack'[c][Len(stack[c])].i)

\* the table the table branch pushes in this step
PushedTable(c) ==
    LET blocks == stack'[c][Len(stack[c])].blocks IN blocks[Len(blocks)]

\* C11: of the lines recognized as a table, the first becomes a row of
\* tableHeader cells, every later line that is not a separator a row of
\* tableCell cells, in source order, and a separator line no row; each cell
\* holds one paragraph with the inline rendering of the trimmed cell text.
C11_TableRows ==
    [][\A c \in Callers :
          TableStep(c) =>
              /\ PushedTable(c).type = "table"
              /\ PushedTable(c).content = HeaderThenRows(TableLines(c))]_vars

\* a line that starts with a pipe and has a later pipe, at least one character between them
PipeDelimited(line) ==
    /\ CharAt(line, 0) = "|"
    /\ \E p \in 2..(Len(line) - 1) : CharAt(line, p) = "|"

\* the line after offset i is a separator row: pipes, hyphens, colons and
\* whitespace only, between a first and a last pipe
SeparatorFollows(lines, i) ==
    /\ i + 1 < Len(lines)
    /\ LET next == Trim(lines[i + 2]) IN
       /\ Len(next) >= 3
       /\ next[1] = "|"
       /\ next[Len(next)] = "|"
       /\ \A p \in 1..Len(next) : next[p] \in WhiteSpace \cup {"|", "-", ":"}

\* C12: when the scan is at a pipe-delimited line and no separator row
\* follows it immediately, the step pushes no block, so no table: the line,
\* right-trimmed, joins the pending paragraph lines and the scan moves on
\* by one line.
C12_NoSeparatorNoTable ==
    [][\A c \in Callers :
          LET n == Len(stack[c]) IN
          (/\ n > 0
           /\ stack'[c] # stack[c]
           /\ Top(c).i < Len(Top(c).lines)
           /\ PipeDelimited(Top(c).lines[Top(c).i + 1])
           /\ ~SeparatorFollows(Top(c).lines, Top(c).i)) =>
              /\ Len(stack'[c]) = n
              /\ stack'[c][n].blocks = Top(c).blocks
              /\ stack'[c][n].paragraphBuffer =
                    Append(Top(c).paragraphBuffer, TrimEnd(Top(c).lines[Top(c).i + 1]))
              /\ stack'[c][n].i = Top(c).i + 1]_vars

\* a table header, a rule, a table header: two paragraphs around the rule, no table
C12_Witness ==
    /\ Returned(1)
    /\ markdown[1] = <<"|", " ", "A", " ", "|", "\n", "-", "-", "-", "\n", "|", " ", "A", " ", "|">>
    /\ Len(result[1].content) = 3
    /\ result[1].content[1] = Paragraph(<<TextNode(<<"|", " ", "A", " ", "|">>)>>)
    /\ result[1].content[3] = result[1].content[1]

\* the number of consecutive lines from offset i on that begin with >
QuoteRun(lines, i) == RunOfLines([k \in 1..Len(lines) |-> CharAt(lines[k], 0) = ">"], i)

\* a line without its leading > and without one whitespace character after it
Dedented(line) ==
    IF CharAt(line, 1) \in WhiteSpace THEN Slice(line, 2, Len(line)) ELSE Slice(line, 1, Len(line))

\* the lines of the run at offset i, dedented and joined by newlines
DedentedText(lines, i) ==
    JoinLines([k \in 1..QuoteRun(lines, i) |-> Dedented(lines[i + k])])

\* at a line beginning with >, the call stack having room: the pending
\* paragraph is flushed, the scan passes the whole run, and markdownToAdf
\* is called once, on the dedented text
QuoteCallsOnDedentedText ==
    \A c \in Callers :
        LET n == Len(stack[c]) IN
        (/\ n > 0
         /\ n < CallStackLimit
         /\ stack'[c] # stack[c]
         /\ Top(c).i < Len(Top(c).lines)
         /\ CharAt(Top(c).lines[Top(c).i + 1], 0) = ">") =>
            /\ Len(stack'[c]) = n + 1
            /\ stack'[c][n + 1] = NewFrame(DedentedText(Top(c).lines, Top(c).i))
            /\ stack'[c][n].blocks = flushParagraph(Top(c).blocks, Top(c).paragraphBuffer)
            /\ stack'[c][n].paragraphBuffer = <<>>
            /\ stack'[c][n].i = Top(c).i + QuoteRun(Top(c).lines, Top(c).i)

\* when that call returns, its caller pushes exactly one blockquote, whose
\* content is the content of the document returned, and goes on where it was
QuoteHoldsReturnedContent ==
    \A c \in Callers :
        LET n == Len(stack[c]) IN
        (n > 1 /\ Len(stack'[c]) = n - 1) =>
            LET innerDoc == Doc(flushParagraph(Top(c).blocks, Top(c).paragraphBuffer)) IN
            /\ Len(innerDoc.content) >= 1
            /\ stack'[c][n - 1] =
                  [stack[c][n - 1] EXCEPT !.blocks =
                      Append(@, [type |-> "blockquote", content |-> innerDoc.content])]

\* k blockquotes, one in the other, around the paragraph "q"
RECURSIVE NestedQuoteBlocks(_)
NestedQuoteBlocks(k) ==
    IF k = 0 THEN Paragraph(<<TextNode(<<"q">>)>>)
    ELSE [type |-> "blockquote", content |-> <<NestedQuoteBlocks(k - 1)>>]

\* the line of k markers before " q" gives k blockquotes, one in the other
MarkersGiveNesting ==
    \A c \in Callers : \A k \in 1..(CallStackLimit - 1) :
        (Returned(c) /\ markdown[c] = QuoteMarkers(k) \o <<" ", "q">>) =>
            result[c].content = <<NestedQuoteBlocks(k)>>

\* C13: a maximal run of lines beginning with > gives exactly one
\* blockquote, whose content is the content of the document markdownToAdf
\* returns for the lines of the run, each without its > and without one
\* whitespace character after it, joined by newlines; that content is never
\* empty, and k markers give k blockquotes, one in the other.
C13_Blockquote ==
    /\ [][QuoteCallsOnDedentedText]_vars
    /\ [][QuoteHoldsReturnedContent]_vars
    /\ [](MarkersGiveNesting)

C13_Witness ==
    /\ Returned(1)
    /\ markdown[1] = NestedQuotes
    /\ Len(result[1].content) = 1
    /\ result[1].content[1].type = "blockquote"
    /\ Len(result[1].content[1].content) = 2
    /\ result[1].content[1].content[1] = NestedQuoteBlocks(1)
    /\ result[1].content[1].content[2].type = "heading"

----------------------------------------------------------------------------
(* Tempo time logging: TempoClient.calculateNextStartTime and the handler  *)
(* of the tool tempo_log_time.  A time of day is the string HH:MM:SS.      *)

DecimalDigits == <<"0", "1", "2", "3", "4", "5", "6", "7", "8", "9">>

\* n.toString() for a natural number
RECURSIVE toString(_)
toString(n) ==
    IF n < 10 THEN <<DecimalDigits[n + 1]>>
    ELSE toString(n \div 10) \o <<DecimalDigits[(n % 10) + 1]>>

\* Number(str) for a string of decimal digits
RECURSIVE Number(_)
Number(str) ==
    IF str = <<>> THEN 0
    ELSE Number(SubSeq(str, 1, Len(str) - 1)) * 10
            + (CHOOSE d \in 0..9 : DecimalDigits[d + 1] = str[Len(str)])

\* str.padStart(2, "0")
PadStart2(str) ==
    IF Len(str) >= 2 THEN str
    ELSE IF Len(str) = 1 THEN <<"0">> \o str
    ELSE <<"0", "0">>

\* str.split(":")
RECURSIVE SplitColons(_)
SplitColons(str) ==
    LET N == {p \in 0..(Len(str) - 1) : str[p + 1] = ":"} IN
    IF N = {} THEN <<str>>
    ELSE <<Slice(str, 0, Min(N))>> \o SplitColons(Slice(str, Min(N) + 1, Len(str)))

\* const [h, m, s] = entry.startTime.split(":").map(Number); h * 3600 + m * 60 + s
StartSeconds(entry) ==
    LET hms == SplitColons(entry.startTime) IN
    Number(hms[1]) * 3600 + Number(hms[2]) * 60 + Number(hms[3])

EndSeconds(entry) == StartSeconds(entry) + entry.timeSpentSeconds

\* the loop over the entries from the k-th on, latestEndSeconds being latest
RECURSIVE LatestEndSeconds(_, _, _)
LatestEndSeconds(entries, k, latest) ==
    IF k > Len(entries) THEN latest
    ELSE LatestEndSeconds(entries, k + 1,
             IF EndSeconds(entries[k]) > latest THEN EndSeconds(entries[k]) ELSE latest)

\* the HH:MM:SS string of a number of seconds
FormatTime(seconds) ==
    PadStart2(toString(seconds \div 3600)) \o <<":">>
        \o PadStart2(toString((seconds % 3600) \div 60)) \o <<":">>
        \o PadStart2(toString(seconds % 60))

\* the default of the parameter workdayStart
WorkdayStart == <<"0", "9", ":", "0", "0", ":", "0", "0">>

\* the end of the last entry taken for the latest end
calculateNextStartTimeFromLast(entries) ==
    IF Len(entries) = 0 THEN WorkdayStart
    ELSE FormatTime(EndSeconds(entries[Len(entries)]))

calculateNextStartTime(entries) ==
    IF Len(entries) = 0 THEN WorkdayStart
    ELSE FormatTime(LatestEndSeconds(entries, 1, 0))

Invocations == 1..NumInvocations

\* the values of the argument hours
HoursInputs == {1, 8}

\* worklogs entered in Tempo by other means: one over before the work day
\* starts, one with minutes and seconds, one ending at midnight
OtherWorklogs ==
    { [startTime |-> <<"0", "7", ":", "0", "0", ":", "0", "0">>, timeSpentSeconds |-> 3600],
      [startTime |-> <<"0", "9", ":", "3", "0", ":", "1", "5">>, timeSpentSeconds |-> 2745],
      [startTime |-> <<"1", "6", ":", "0", "0", ":", "0", "0">>, timeSpentSeconds |-> 28800] }

ExistingWorklogs == UNION {[1..n -> OtherWorklogs] : n \in 0..(MaxWorklogs - 1)}

InitTempo ==
    /\ InlineIdle
    /\ BlockIdle
    /\ worklogs \in ExistingWorklogs
    /\ logTime = [p \in Invocations |-> NotInvoked]
    /\ ConfigIdle

\* the invocations that have not yet posted their worklog
Running == {p \in Invocations : logTime[p].pc \in {"getWorklogsForDate", "logTime"}}

\* the handler is invoked and runs up to the request of getWorklogsForDate
\* (the lookups of the user and the issue read and change no worklog)
TempoLogTime(p) ==
    /\ logTime[p].pc \in {"idle", "done"}
    /\ Len(worklogs) + Cardinality(Running) < MaxWorklogs
    /\ \E hours \in HoursInputs :
          logTime' = [logTime EXCEPT ![p] =
                        [pc |-> "getWorklogsForDate",
                         timeSpentSeconds |-> hours * 3600,
                         startTime |-> <<>>]]
    /\ UNCHANGED worklogs
    /\ UNCHANGED <<inlineVars, blockVars, configVars>>

\* Tempo answers with the worklogs it holds; the handler computes startTime
\* and runs up to the request of logTime
GetWorklogsForDate(p) ==
    /\ logTime[p].pc = "getWorklogsForDate"
    /\ logTime' = [logTime EXCEPT ![p].pc = "logTime",
                                  ![p].startTime = calculateNextStartTime(worklogs)]
    /\ UNCHANGED worklogs
    /\ UNCHANGED <<inlineVars, blockVars, configVars>>

\* Tempo stores the worklog posted by logTime; the handler returns
PostWorklog(p) ==
    /\ logTime[p].pc = "logTime"
    /\ worklogs' = Append(worklogs, [startTime |-> logTime[p].startTime,
                                     timeSpentSeconds |-> logTime[p].timeSpentSeconds])
    /\ logTime' = [logTime EXCEPT ![p].pc = "done"]
    /\ UNCHANGED <<inlineVars, blockVars, configVars>>

NextTempo ==
    \E p \in Invocations : TempoLogTime(p) \/ GetWorklogsForDate(p) \/ PostWorklog(p)

SpecTempo == InitTempo /\ [][NextTempo]_vars

\* C14: every worklog an invocation of tempo_log_time posts starts at or
\* after the end of every worklog Tempo holds for the date at that moment,
\* so the worklogs of the tool never overlap, however the invocations
\* interleave.
C14_NoOverlap ==
    [][\A p \in Invocations :
          (logTime[p].pc = "logTime" /\ logTime'[p].pc = "done") =>
              \A k \in 1..Len(worklogs) :
                  StartSeconds(worklogs'[Len(worklogs')]) >= EndSeconds(worklogs[k])]_vars

\* the seconds since midnight of the time HH:MM:SS, two digits a field
SecondsOfTime(time) ==
    Number(SubSeq(time, 1, 2)) * 3600 + Number(SubSeq(time, 4, 5)) * 60
        + Number(SubSeq(time, 7, 8))

\* the time HH:MM:SS of a number of seconds below one hundred hours
TimeOfSeconds(n) ==
    LET TwoDigits(v) == <<DecimalDigits[(v \div 10) + 1], DecimalDigits[(v % 10) + 1]>> IN
    TwoDigits(n \div 3600) \o <<":">> \o TwoDigits((n % 3600) \div 60)
        \o <<":">> \o TwoDigits(n % 60)

\* the end, in seconds since midnight, of a worklog
EndOf(w) == SecondsOfTime(w.startTime) + w.timeSpentSeconds

\* the step in which invocation p receives the entries and computes startTime
Computes(p) ==
    /\ logTime[p].pc = "getWorklogsForDate"
    /\ logTime'[p].pc = "logTime"

\* C16: calculateNextStartTime returns 09:00:00 for no entries; otherwise
\* it returns, as HH:MM:SS, the greatest of the ends startTime +
\* timeSpentSeconds of the entries, whatever their order, so a time not
\* earlier than the end of any entry.
C16_LatestEnd ==
    [][\A p \in Invocations :
          Computes(p) =>
              LET startTime == logTime'[p].startTime IN
              /\ worklogs = <<>> => startTime = <<"0", "9", ":", "0", "0", ":", "0", "0">>
              /\ worklogs # <<>> =>
                    /\ \E k \in 1..Len(worklogs) : startTime = TimeOfSeconds(EndOf(worklogs[k]))
                    /\ \A k \in 1..Len(worklogs) :
                          SecondsOfTime(startTime) >= EndOf(worklogs[k])]_vars

\* the entry with the latest end is listed first
C16_Witness ==
    /\ logTime[1].pc = "logTime"
    /\ Len(worklogs) = 2
    /\ EndOf(worklogs[1]) > EndOf(worklogs[2])
    /\ logTime[1].startTime = <<"1", "0", ":", "1", "6", ":", "0", "0">>

\* C17: the start time calculateNextStartTime returns lies within the work
\* day and is a time of day: not before 09:00:00, not after 17:00:00, its
\* hours below 24.
C17_WithinWorkDay ==
    \A p \in Invocations :
        logTime[p].startTime # <<>> =>
            /\ SecondsOfTime(logTime[p].startTime) >= 9 * 3600
            /\ SecondsOfTime(logTime[p].startTime) <= 17 * 3600
            /\ Number(SubSeq(logTime[p].startTime, 1, 2)) < 24

----------------------------------------------------------------------------
(* Configuration: resolveInstance *)

UpperCase == <<"A", "B", "C", "D", "E", "F", "G", "H", "I", "J", "K", "L", "M",
               "N", "O", "P", "Q", "R", "S", "T", "U", "V", "W", "X", "Y", "Z">>

LowerCase == <<"a", "b", "c", "d", "e", "f", "g", "h", "i", "j", "k", "l", "m",
               "n", "o", "p", "q", "r", "s", "t", "u", "v", "w", "x", "y", "z">>

\* cwd.toLowerCase()
toLowerCase(s) ==
    [p \in 1..Len(s) |->
        IF \E k \in 1..26 : UpperCase[k] = s[p]
        THEN LowerCase[CHOOSE k \in 1..26 : UpperCase[k] = s[p]]
        ELSE s[p]]

\* s.includes(pattern)
Includes(s, pattern) ==
    \E p \in 0..(Len(s) - Len(pattern)) : Slice(s, p, p + Len(pattern)) = pattern

\* the inner loop: some pattern of inst is in normalizedCwd
SomePatternIncluded(inst, normalizedCwd) ==
    \E k \in 1..Len(inst.pathPatterns) : Includes(normalizedCwd, inst.pathPatterns[k])

\* the outer loop from the k-th instance on: the offset of the instance
\* returned, 0 when the loops end without a return
RECURSIVE FirstIncluded(_, _, _)
FirstIncluded(instances, k, normalizedCwd) ==
    IF k > Len(instances) THEN 0
    ELSE IF SomePatternIncluded(instances[k], normalizedCwd) THEN k
    ELSE FirstIncluded(instances, k + 1, normalizedCwd)

\* throw new Error("No JIRA/Tempo instances configured. ...")
NoInstancesError == [type |-> "Error"]

\* the loops over the instances of a cwd taken as it is
resolveInstanceCaseSensitive(config, cwd) ==
    IF Len(config.instances) = 0 THEN NoInstancesError
    ELSE LET k == FirstIncluded(config.instances, 1, cwd) IN
         [type |-> "ResolvedConfig",
          instance |-> config.instances[IF k = 0 THEN 1 ELSE k],
          baseBranch |-> config.baseBranch]

\* resolveInstance(cwd), config being what buildInstances() returns
resolveInstance(config, cwd) ==
    IF Len(config.instances) = 0 THEN NoInstancesError
    ELSE LET k == FirstIncluded(config.instances, 1, toLowerCase(cwd)) IN
         [type |-> "ResolvedConfig",
          instance |-> config.instances[IF k = 0 THEN 1 ELSE k],
          baseBranch |-> config.baseBranch]

\* the file exists and reading or parsing it throws
UnparseableFile == [state |-> "unparseable"]

\* the file exists and JSON.parse gives the value c: a ConfigFile, or null
ParsedFile(c) == [state |-> "parsed", content |-> c]

\* what JSON.parse gives for the text null
JsonNull == [json |-> "null"]

\* the loop of loadConfigFile over configPaths from the k-th path on: <<>>
\* is null, <<c>> the ConfigFile c; a file that throws is logged and
\* passed over; the value parsed is returned whatever it is
RECURSIVE LoadFrom(_, _)
LoadFrom(files, k) ==
    IF k > Len(files) THEN <<>>
    ELSE IF files[k].state = "absent" THEN LoadFrom(files, k + 1)
    ELSE IF files[k].state = "parsed"
         THEN (IF files[k].content = JsonNull THEN <<>> ELSE <<files[k].content>>)
    ELSE LoadFrom(files, k + 1)

\* loadConfigFile(): configured.files are ~/.config/jira-tempo-mcp/config.json
\* and ~/.jira-tempo-mcp.json in this order
loadConfigFile == LoadFrom(configured.files, 1)

\* config.instances.map(...): name and pathPatterns as they are (the URL
\* and the tokens, which no modelled code reads, are left out)
buildInstancesFromFile(config) ==
    [k \in 1..Len(config.instances) |->
        [name |-> config.instances[k].name, pathPatterns |-> config.instances[k].pathPatterns]]

\* a value that is neither undefined nor the empty string
Truthy(v) == v # <<>> /\ v[1] # <<>>

\* mmwJiraToken && mmwTempoToken, and so on
BothTokens(env, jiraKey, tempoKey) == Truthy(env[jiraKey]) /\ Truthy(env[tempoKey])

MmwInstance ==
    [name |-> "mmw",
     pathPatterns |-> << <<"p", "r", "o", "j", "e", "c", "t", "s", "/", "m", "m", "w", "/">>,
                         <<"p", "r", "o", "j", "e", "c", "t", "s", "/", "m", "m", "w", "-">>,
                         <<"/", "m", "a", "r", "k", "e", "n", "m", "e", "h", "r", "w", "e", "r", "t", "/">> >>]

ParesInstance ==
    [name |-> "pares",
     pathPatterns |-> << <<"p", "r", "o", "j", "e", "c", "t", "s", "/", "p", "a", "r", "e", "s", "/">>,
                         <<"p", "r", "o", "j", "e", "c", "t", "s", "/", "p", "a", "r", "e", "s", "-">> >>]

LagoasoftInstance ==
    [name |-> "lagoasoft",
     pathPatterns |-> << <<"p", "r", "o", "j", "e", "c", "t", "s", "/", "l", "a", "g", "o", "a", "s", "o", "f", "t", "/">>,
                         <<"p", "r", "o", "j", "e", "c", "t", "s", "/", "l", "a", "g", "o", "a", "s", "o", "f", "t", "-">> >>]

buildInstancesFromEnv(env) ==
    IF ~Truthy(env["JIRA_EMAIL"]) THEN <<>>
    ELSE (IF BothTokens(env, "JIRA_TOKEN_MMW", "TEMPO_TOKEN_MMW") THEN <<MmwInstance>> ELSE <<>>)
         \o (IF BothTokens(env, "JIRA_TOKEN_PARES", "TEMPO_TOKEN_PARES")
             THEN <<ParesInstance>> ELSE <<>>)
         \o (IF BothTokens(env, "JIRA_TOKEN_LAGOASOFT", "TEMPO_TOKEN_LAGOASOFT")
             THEN <<LagoasoftInstance>> ELSE <<>>)

Main == <<"m", "a", "i", "n">>

\* value ?? "main"
OrMain(v) == IF v = <<>> THEN Main ELSE v[1]

\* buildInstances() loading on every call
buildInstancesUncached ==
    LET configFile == loadConfigFile IN
    IF configFile # <<>>
    THEN [instances |-> buildInstancesFromFile(configFile[1]),
          baseBranch |-> OrMain(configFile[1].baseBranch)]
    ELSE [instances |-> buildInstancesFromEnv(configured.env),
          baseBranch |-> OrMain(configured.env["DEFAULT_BASE_BRANCH"])]

\* buildInstances(): the value returned, which is also the value of
\* cachedConfig after the call
buildInstances ==
    IF cachedConfig # NoConfig THEN cachedConfig[1]
    ELSE LET configFile == loadConfigFile IN
         IF configFile # <<>>
         THEN [instances |-> buildInstancesFromFile(configFile[1]),
               baseBranch |-> OrMain(configFile[1].baseBranch)]
         ELSE [instances |-> buildInstancesFromEnv(configured.env),
               baseBranch |-> OrMain(configured.env["DEFAULT_BASE_BRANCH"])]

\* listInstances(): name and patterns of every instance
listInstances(config) ==
    [k \in 1..Len(config.instances) |->
        [name |-> config.instances[k].name, patterns |-> config.instances[k].pathPatterns]]

\* instances with one pattern, with two, with a pattern in upper case, with none
InstanceInputs ==
    { [name |-> "mmw", pathPatterns |-> << <<"/", "m", "/">> >>],
      [name |-> "pares", pathPatterns |-> << <<"/", "p", "/">>, <<"/", "m", "/">> >>],
      [name |-> "upper", pathPatterns |-> << <<"/", "M", "/">> >>],
      [name |-> "none", pathPatterns |-> <<>>] }

\* config files without baseBranch, and one with it
ConfigFileInputs ==
    { [instances |-> is, baseBranch |-> <<>>] :
        is \in UNION {[1..n -> InstanceInputs] : n \in 0..MaxInstances} }

Dev == <<"d", "e", "v">>

ParesFile ==
    [instances |-> <<[name |-> "pares", pathPatterns |-> << <<"/", "p", "/">>, <<"/", "m", "/">> >>]>>,
     baseBranch |-> <<Dev>>]

MmwFile == [instances |-> <<[name |-> "mmw", pathPatterns |-> << <<"/", "m", "/">> >>]>>, baseBranch |-> <<>>]

EmptyFile == [instances |-> <<>>, baseBranch |-> <<>>]

Token == <<"t">>

EnvMmw ==
    [NoEnv EXCEPT !["JIRA_EMAIL"] = << <<"e">> >>,
                  !["JIRA_TOKEN_MMW"] = <<Token>>,
                  !["TEMPO_TOKEN_MMW"] = <<Token>>,
                  !["JIRA_TOKEN_PARES"] = <<Token>>,
                  !["DEFAULT_BASE_BRANCH"] = <<Dev>>]

EnvParesLagoasoft ==
    [NoEnv EXCEPT !["JIRA_EMAIL"] = << <<"e">> >>,
                  !["JIRA_TOKEN_MMW"] = <<Token>>,
                  !["TEMPO_TOKEN_MMW"] = << <<>> >>,
                  !["JIRA_TOKEN_PARES"] = <<Token>>,
                  !["TEMPO_TOKEN_PARES"] = <<Token>>,
                  !["JIRA_TOKEN_LAGOASOFT"] = <<Token>>,
                  !["TEMPO_TOKEN_LAGOASOFT"] = <<Token>>]

EnvWithoutEmail ==
    [NoEnv EXCEPT !["JIRA_TOKEN_MMW"] = <<Token>>,
                  !["TEMPO_TOKEN_MMW"] = <<Token>>]

\* files and environment in the combinations that decide the source
SourceInputs ==
    { [files |-> <<AbsentFile, AbsentFile>>, env |-> NoEnv],
      [files |-> <<ParsedFile(MmwFile), ParsedFile(ParesFile)>>, env |-> EnvMmw],
      [files |-> <<UnparseableFile, ParsedFile(ParesFile)>>, env |-> EnvMmw],
      [files |-> <<AbsentFile, ParsedFile(EmptyFile)>>, env |-> EnvMmw],
      [files |-> <<AbsentFile, UnparseableFile>>, env |-> EnvMmw],
      [files |-> <<UnparseableFile, UnparseableFile>>, env |-> EnvParesLagoasoft],
      [files |-> <<UnparseableFile, AbsentFile>>, env |-> EnvWithoutEmail],
      [files |-> <<ParsedFile(JsonNull), ParsedFile(ParesFile)>>, env |-> EnvMmw] }

ConfigInputs ==
    { [files |-> <<ParsedFile(c), AbsentFile>>, env |-> NoEnv] : c \in ConfigFileInputs }
        \cup SourceInputs

CwdInputs ==
    { <<"/", "M", "/", "x">>,
      <<"/", "p", "/">>,
      <<"/", "x", "/", "p", "/", "m", "/">>,
      <<"/", "x", "/">>,
      <<"/", "P", "r", "o", "j", "e", "c", "t", "s", "/", "P", "a", "r", "e", "s", "-", "x">>,
      <<>> }

InitConfig ==
    /\ InlineIdle
    /\ BlockIdle
    /\ TempoIdle
    /\ configured \in ConfigInputs
    /\ cachedConfig = NoConfig
    /\ resolved = NotResolved
    /\ listed = NotListed

\* a call resolveInstance(cwd)
ResolveInstance ==
    /\ \E cwd \in CwdInputs :
          resolved' = [cwd |-> cwd, outcome |-> resolveInstance(buildInstances, cwd)]
    /\ cachedConfig' = <<buildInstances>>
    /\ UNCHANGED <<configured, listed>>
    /\ UNCHANGED <<inlineVars, blockVars, tempoVars>>

\* a call listInstances()
ListInstances ==
    /\ listed' = [call |-> "listInstances", outcome |-> listInstances(buildInstances)]
    /\ cachedConfig' = <<buildInstances>>
    /\ UNCHANGED <<configured, resolved>>
    /\ UNCHANGED <<inlineVars, blockVars, tempoVars>>

\* a call getAllInstances()
GetAllInstances ==
    /\ listed' = [call |-> "getAllInstances", outcome |-> buildInstances.instances]
    /\ cachedConfig' = <<buildInstances>>
    /\ UNCHANGED <<configured, resolved>>
    /\ UNCHANGED <<inlineVars, blockVars, tempoVars>>

\* the user edits the config files or the environment of a later process;
\* in the running process process.env and the files may change as well
ConfigurationChanges ==
    /\ \E c \in SourceInputs :
          /\ c # configured
          /\ configured' = c
    /\ UNCHANGED <<cachedConfig, resolved, listed>>
    /\ UNCHANGED <<inlineVars, blockVars, tempoVars>>

NextConfig ==
    \/ ResolveInstance
    \/ ListInstances
    \/ GetAllInstances
    \/ ConfigurationChanges

SpecConfig == InitConfig /\ [][NextConfig]_vars

\* the configuration the process has loaded
Configuration == cachedConfig[1]

\* the cwd with its upper-case letters replaced by lower-case ones
LowerCased(cwd) ==
    [p \in 1..Len(cwd) |->
        CASE cwd[p] = "M" -> "m"
          [] cwd[p] = "P" -> "p"
          [] cwd[p] = "X" -> "x"
          [] OTHER -> cwd[p]]

\* instance number k has a pattern contained in the lower-cased cwd
HasPatternIn(k, cwd) ==
    \E j \in 1..Len(Configuration.instances[k].pathPatterns) :
        Contains(LowerCased(cwd), Configuration.instances[k].pathPatterns[j])

\* C15: resolveInstance(cwd) returns the first instance, in the order of
\* the configuration, with a pattern contained in the lower-cased cwd; the
\* first instance when no instance has one; and with no instance
\* configured it throws and returns nothing.
C15_ResolveInstance ==
    resolved # NotResolved =>
        LET n == Len(Configuration.instances)
            matching == {k \in 1..n : HasPatternIn(k, resolved.cwd)} IN
        /\ n = 0 => (resolved.outcome.type = "Error" /\ DOMAIN resolved.outcome = {"type"})
        /\ n > 0 =>
              /\ resolved.outcome.type = "ResolvedConfig"
              /\ resolved.outcome.instance =
                    Configuration.instances[IF matching = {} THEN 1 ELSE Min(matching)]

\* the first instance has its pattern in upper case, the second matches /M/x once lower-cased
C15_Witness ==
    /\ cachedConfig # NoConfig
    /\ Len(Configuration.instances) = 2
    /\ Configuration.instances[1].name = "upper"
    /\ Configuration.instances[2].name = "mmw"
    /\ resolved.cwd = <<"/", "M", "/", "x">>
    /\ resolved.outcome.type = "ResolvedConfig"
    /\ resolved.outcome.instance.name = "mmw"

----------------------------------------------------------------------------
(* Properties of paragraphs and of the order of the blocks *)

\* the buffered lines as one paragraph, nothing for no lines
BufferedParagraph(buffer) ==
    IF buffer = <<>> THEN <<>>
    ELSE <<[type |-> "paragraph", content |-> parseInline(JoinLines(buffer))]>>

\* blocks is before followed by at most one more block
AtMostOneAfter(blocks, before) ==
    /\ Len(blocks) \in {Len(before), Len(before) + 1}
    /\ SubSeq(blocks, 1, Len(before)) = before

\* a step of the line loop in activation n of caller c: either the line,
\* right-trimmed and not blank, joins the buffer and no block is pushed, or
\* the buffer is emitted as one paragraph, behind the blocks pushed before
\* and ahead of the block of this step, and is empty afterwards
LineStepFlushes(c, n) ==
    LET f == stack[c][n]
        g == stack'[c][n]
        trimmed == TrimEnd(f.lines[f.i + 1]) IN
    \/ /\ trimmed # <<>>
       /\ Len(stack'[c]) = n
       /\ g.paragraphBuffer = Append(f.paragraphBuffer, trimmed)
       /\ g.blocks = f.blocks
    \/ /\ g.paragraphBuffer = <<>>
       /\ AtMostOneAfter(g.blocks, f.blocks \o BufferedParagraph(f.paragraphBuffer))
       /\ Len(stack'[c]) = n + 1 => g.blocks = f.blocks \o BufferedParagraph(f.paragraphBuffer)

\* the end of input in activation n of caller c: the buffer is emitted as
\* one paragraph behind the blocks pushed before, and these blocks are the
\* content handed back, to the caller of markdownToAdf or to the
\* blockquote of the calling activation
EndOfInputFlushes(c, n) ==
    LET f == stack[c][n]
        all == f.blocks \o BufferedParagraph(f.paragraphBuffer)
        content == IF n = 1 THEN result'[c].content
                   ELSE stack'[c][n - 1].blocks[Len(stack'[c][n - 1].blocks)].content IN
    /\ all # <<>> => content = all
    /\ all = <<>> => Len(content) = 1
    /\ n > 1 =>
          /\ Len(stack'[c][n - 1].blocks) = Len(stack[c][n - 1].blocks) + 1
          /\ SubSeq(stack'[c][n - 1].blocks, 1, Len(stack[c][n - 1].blocks))
                = stack[c][n - 1].blocks
          /\ stack'[c][n - 1].paragraphBuffer = <<>>

\* C18: blocks are pushed in the order the scan meets their lines, behind
\* the blocks already pushed; whenever a construct is recognized or a blank
\* line or the end of input is reached, the buffered lines are emitted as
\* one paragraph ahead of the new block and the buffer is empty afterwards;
\* any other line joins the buffer; so no buffered line is lost, emitted
\* twice or emitted behind a later block.
C18_FlushBeforeBlock ==
    [][\A c \in Callers :
          LET n == Len(stack[c]) IN
          (n > 0 /\ stack'[c] # stack[c] /\ ~Threw(c)') =>
              IF Len(stack'[c]) = n - 1
              THEN EndOfInputFlushes(c, n)
              ELSE LineStepFlushes(c, n)]_vars

\* a paragraph line ended by a heading: the paragraph, then the heading
C18_Witness ==
    /\ Returned(1)
    /\ markdown[1] = <<"*", "x", "*", " ", "\n", "#", " ", "h">>
    /\ Len(result[1].content) = 2
    /\ result[1].content[1] = Paragraph(<<MarkedText(<<"x">>, [type |-> "em"])>>)
    /\ result[1].content[2].type = "heading"

\* a line that is not blank and starts no construct where it stands: no
\* fence, rule, heading, quote, list item, and no table row before a separator
PlainLine(lines, j) ==
    LET line == lines[j]
        t == TrimEnd(line) IN
    /\ t # <<>>
    /\ ~OpensFence(t)
    /\ ~(Len(t) >= 3 /\ \E ch \in {"*", "-", "_"} : \A p \in 1..Len(t) : t[p] = ch)
    /\ ~(\E k \in 1..6 :
            /\ \A p \in 1..k : CharAt(t, p - 1) = "#"
            /\ CharAt(t, k) \in WhiteSpace
            /\ Len(t) > k + 1)
    /\ CharAt(t, 0) # ">"
    /\ ~(PipeDelimited(t) /\ SeparatorFollows(lines, j - 1))
    /\ ~IsBulletLine(line)
    /\ ~IsOrderedLine(line)

\* the buffer of an activation holds the lines just before the line index,
\* right-trimmed, every one a plain line, and so never only whitespace
BufferIsPlainRun(f) ==
    LET b == Len(f.paragraphBuffer) IN
    /\ b <= f.i
    /\ \A k \in 1..b :
          /\ f.paragraphBuffer[k] = TrimEnd(f.lines[f.i - b + k])
          /\ PlainLine(f.lines, f.i - b + k)
    /\ b > 0 => ~OnlyWhiteSpace(JoinLines(f.paragraphBuffer))

\* a plain line met by the scan joins the buffer; any other step empties it
PlainLinesAreBuffered ==
    \A c \in Callers :
        LET n == Len(stack[c]) IN
        (/\ n > 0
         /\ Len(stack'[c]) = n
         /\ stack'[c] # stack[c]) =>
            IF PlainLine(Top(c).lines, Top(c).i + 1)
            THEN /\ stack'[c][n].i = Top(c).i + 1
                 /\ Len(stack'[c][n].paragraphBuffer) = Len(Top(c).paragraphBuffer) + 1
                 /\ stack'[c][n].blocks = Top(c).blocks
            ELSE /\ stack'[c][n].paragraphBuffer = <<>>
                 /\ Top(c).paragraphBuffer # <<>> =>
                       stack'[c][n].blocks[Len(Top(c).blocks) + 1]
                           = [type |-> "paragraph",
                              content |-> parseInline(JoinLines(Top(c).paragraphBuffer))]

EmText == [type |-> "text", text |-> <<"x">>, marks |-> <<[type |-> "em"]>>]

\* two plain lines give one paragraph, a blank line between them gives two
RunsGiveParagraphs ==
    \A c \in Callers :
        /\ (Returned(c) /\ markdown[c] = <<"*", "x", "*", " ", "\n", "*", "x", "*", " ">>) =>
              result[c].content =
                 <<[type |-> "paragraph",
                    content |-> <<EmText, [type |-> "text", text |-> <<"\n">>], EmText>>]>>
        /\ (Returned(c) /\ markdown[c] = <<"*", "x", "*", " ", "\n", "\n", "*", "x", "*", " ">>) =>
              result[c].content =
                 <<[type |-> "paragraph", content |-> <<EmText>>],
                   [type |-> "paragraph", content |-> <<EmText>>]>>

\* C19: the buffer holds a run of consecutive lines that are not blank and
\* start no construct, each right-trimmed; the run grows with every such
\* line the scan meets and ends at any other line, where it gives exactly
\* one paragraph with the inline rendering of its lines joined by newlines;
\* a blank line between two runs gives two paragraphs; a flush never makes
\* a paragraph of whitespace-only text.
C19_ParagraphRun ==
    /\ [](\A c \in Callers : \A n \in 1..Len(stack[c]) : BufferIsPlainRun(stack[c][n]))
    /\ [][PlainLinesAreBuffered]_vars
    /\ [](RunsGiveParagraphs)

C19_Witness ==
    /\ Returned(1)
    /\ markdown[1] = <<"*", "x", "*", " ", "\n", "\n", "*", "x", "*", " ">>
    /\ Len(result[1].content) = 2
    /\ result[1].content[1] = result[1].content[2]
    /\ result[1].content[1].type = "paragraph"

----------------------------------------------------------------------------
(* Properties of the inline parser's result *)

\* the cells of the table row | text |
CellsOf(t) == TableRow(<<"|">> \o t \o <<"|">>, FALSE).content

\* C20: parseInline returns at least one node for every text, and for the
\* empty text exactly one text node with the empty text and no marks; so
\* the paragraph, the heading content, the paragraph of a list item and
\* the paragraphs of table cells made of a text have inline content.
C20_InlineNeverEmpty ==
    inlinePc = "returned" =>
        /\ Len(nodes) >= 1
        /\ text = <<>> => nodes = <<[type |-> "text", text |-> <<>>]>>
        /\ parseInline(text) = nodes
        /\ Len(Paragraph(parseInline(text)).content) >= 1
        /\ Len(ListItem(text).content[1].content) >= 1
        /\ \A k \in 1..Len(CellsOf(text)) : Len(CellsOf(text)[k].content[1].content) >= 1

C20_Witness ==
    /\ inlinePc = "returned"
    /\ text = <<>>
    /\ Len(nodes) = 1
    /\ nodes[1].text = <<>>

----------------------------------------------------------------------------
(* Properties of the order and the coverage of the inline nodes *)

\* the unmarked text node of the characters of text from offset a up to b, if any
Verbatim(a, b) == IF b > a THEN <<[type |-> "text", text |-> SubSeq(text, a + 1, b)]>> ELSE <<>>

\* the node of a match lies inside its span, between the delimiters
InsideSpan(node, a, b) ==
    IF node.type = "mention"
    THEN /\ node.attrs.id = SubSeq(text, b - Len(node.attrs.id) + 1, b)
         /\ Len(node.attrs.id) < b - a
    ELSE /\ DOMAIN node = {"type", "text", "marks"}
         /\ Len(node.marks) = 1
         /\ \E p \in (a + 1)..(b - 1) :
               /\ p + Len(node.text) < b
               /\ node.text = SubSeq(text, p + 1, p + Len(node.text))

\* a match starts at or after the end of the one before, consumes its
\* span and gives the text before it and one node
MatchGivesOneNode ==
    (inlinePc = "loop" /\ inlinePc' = "loop" /\ nodes' # nodes) =>
        /\ match'.index >= lastIndex
        /\ match'.length >= 2
        /\ lastIndex' = match'.index + match'.length
        /\ lastIndex' <= Len(text)
        /\ Len(nodes') >= 1
        /\ nodes' = nodes \o Verbatim(lastIndex, match'.index) \o <<nodes'[Len(nodes')]>>
        /\ InsideSpan(nodes'[Len(nodes')], match'.index, lastIndex')

\* the return adds the text after the last match and nothing else, but for
\* the empty text node of a result without nodes
ReturnGivesTrailingText ==
    (inlinePc = "loop" /\ inlinePc' = "returned") =>
        /\ text' = text
        /\ nodes' = IF nodes = <<>> /\ lastIndex >= Len(text)
                    THEN <<[type |-> "text", text |-> <<>>]>>
                    ELSE nodes \o Verbatim(lastIndex, Len(text))

InlineSyntaxChar == {"*", "_", Backtick, "[", "]", "(", ")", "@"}

NoInlineSyntax(s) == \A p \in 1..Len(s) : s[p] \notin InlineSyntaxChar

\* C21: the inline nodes are in source order and come from non-overlapping
\* matches: a match starts at or after the end of the previous one,
\* consumes its whole span, delimiters included, and gives exactly one
\* node; the characters between matches, before the first and after the
\* last are each in one unmarked text node, unchanged; a non-empty text
\* without inline syntax gives one unmarked text node equal to the text.
C21_SourceOrder ==
    /\ [][MatchGivesOneNode]_vars
    /\ [][ReturnGivesTrailingText]_vars
    /\ []((inlinePc = "returned" /\ text # <<>> /\ NoInlineSyntax(text)) =>
            nodes = <<[type |-> "text", text |-> text]>>)

C21_Witness ==
    /\ inlinePc = "returned"
    /\ text = <<"s", "e", "e", " ">> \o MentionAbc123 \o <<" ", "n", "o", "w">>
    /\ Len(nodes) = 3
    /\ nodes[1] = [type |-> "text", text |-> <<"s", "e", "e", " ">>]
    /\ nodes[2].type = "mention"
    /\ nodes[3] = [type |-> "text", text |-> <<" ", "n", "o", "w">>]

----------------------------------------------------------------------------
(* Properties of the marks *)

MarkTypes == {"strong", "em", "code", "link"}

AtMostOneMark(node) ==
    node.type = "text" =>
        \/ "marks" \notin DOMAIN node
        \/ /\ Len(node.marks) = 1
           /\ node.marks[1].type \in MarkTypes

\* every node of the sequence, and of the content of its nodes, has at most one mark
RECURSIVE MarksAtMostOne(_)
MarksAtMostOne(ns) ==
    \A k \in 1..Len(ns) :
        /\ AtMostOneMark(ns[k])
        /\ "content" \in DOMAIN ns[k] => MarksAtMostOne(ns[k].content)

\* C22: every text node of a document markdownToAdf produces, and of the
\* blocks it has pushed so far, has no marks or exactly one mark, which is
\* strong, em, code or link; also for delimiters inside delimiters.
C22_AtMostOneMark ==
    \A c \in Callers :
        /\ Returned(c) => MarksAtMostOne(result[c].content)
        /\ \A n \in 1..Len(stack[c]) : MarksAtMostOne(stack[c][n].blocks)

C22_Witness ==
    /\ Returned(1)
    /\ markdown[1] = NestedDelimiters
    /\ result[1].content =
          <<[type |-> "paragraph",
             content |-> <<[type |-> "text", text |-> <<"_", "x", "_">>,
                            marks |-> <<[type |-> "strong"]>>],
                           [type |-> "text", text |-> <<" ">>],
                           [type |-> "text", text |-> <<"*", "y", "*">>,
                            marks |-> <<[type |-> "link", attrs |-> [href |-> <<"u">>]]>>]>>]>>

----------------------------------------------------------------------------
(* Properties of headings *)

\* the number of # the line begins with
Hashes(line) == RunLength(line, 0, {"#"})

\* the line without its #, the whitespace after them and the whitespace at its end
HeadingText(line) ==
    LET t == TrimEnd(line) IN
    SubSeq(t, Hashes(line) + RunLength(t, Hashes(line), WhiteSpace) + 1, Len(t))

\* 1 to 6 #, then whitespace, then text
IsHeadingLine(line) ==
    /\ Hashes(line) \in 1..6
    /\ CharAt(line, Hashes(line)) \in WhiteSpace
    /\ HeadingText(line) # <<>>

\* the step of an activation at a heading line pushes, after the pending
\* paragraph, the heading of the line; the step at any other line pushes no heading
HeadingLineGivesHeading ==
    \A c \in Callers : \A n \in 1..Len(stack[c]) :
        LET f == stack[c][n] IN
        (/\ n = Len(stack[c])
         /\ f.i < Len(f.lines)
         /\ Len(stack'[c]) >= n
         /\ stack'[c] # stack[c]) =>
            LET line == f.lines[f.i + 1]
                after == stack'[c][n].blocks IN
            /\ IsHeadingLine(line) =>
                  /\ stack'[c][n].i = f.i + 1
                  /\ Len(after) \in {Len(f.blocks) + 1, Len(f.blocks) + 2}
                  /\ after[Len(after)] =
                        [type |-> "heading", attrs |-> [level |-> Hashes(line)],
                         content |-> parseInline(HeadingText(line))]
            /\ ~IsHeadingLine(line) =>
                  \A k \in (Len(f.blocks) + 1)..Len(after) : after[k].type # "heading"

\* every heading of the sequence, and of the content of its nodes, has a level from 1 to 6
RECURSIVE HeadingLevelsInRange(_)
HeadingLevelsInRange(ns) ==
    \A k \in 1..Len(ns) :
        /\ ns[k].type = "heading" => ns[k].attrs.level \in 1..6
        /\ "content" \in DOMAIN ns[k] => HeadingLevelsInRange(ns[k].content)

\* C23: a line of 1 to 6 # followed by whitespace and text, when the scan
\* comes to it, gives a heading whose level is the number of # and whose
\* content is parseInline of the text; every heading of an output has a
\* level from 1 to 6; a line beginning with 7 or more # gives no heading.
C23_Heading ==
    /\ [][HeadingLineGivesHeading]_vars
    /\ [](\A c \in Callers :
            /\ Returned(c) => HeadingLevelsInRange(result[c].content)
            /\ \A n \in 1..Len(stack[c]) : HeadingLevelsInRange(stack[c][n].blocks))

C23_Witness ==
    /\ Returned(1)
    /\ markdown[1] = HeadingLevels
    /\ Len(result[1].content) = 4
    /\ result[1].content[1] =
          [type |-> "heading", attrs |-> [level |-> 2],
           content |-> <<[type |-> "text", text |-> <<"a">>]>>]
    /\ result[1].content[2] =
          [type |-> "heading", attrs |-> [level |-> 6],
           content |-> <<[type |-> "text", text |-> <<"b">>]>>]
    /\ result[1].content[3].type = "paragraph"
    /\ result[1].content[4] =
          [type |-> "heading", attrs |-> [level |-> 1],
           content |-> <<[type |-> "text", text |-> <<"e">>, marks |-> <<[type |-> "em"]>>]>>]

----------------------------------------------------------------------------
(* Properties of horizontal rules *)

\* three or more of one of the characters * - _
RuleCharacters(t) ==
    /\ Len(t) >= 3
    /\ \E ch \in {"*", "-", "_"} : \A p \in 1..Len(t) : t[p] = ch

\* three or more * - or _, with whitespace before or after them or none
IsRuleLine(line) == RuleCharacters(Trim(line))

\* the blocks the step of caller c pushes in activation n, which stays on the stack
PushedBy(c, n) ==
    SubSeq(stack'[c][n].blocks, Len(stack[c][n].blocks) + 1, Len(stack'[c][n].blocks))

\* C24: a line of three or more * - or _, optionally padded with
\* whitespace, that the scan comes to (so outside a fenced code block)
\* gives a rule block: the step pushes the pending paragraph, if any, and
\* the rule, and the line is neither a list item nor paragraph text.
C24_Rule ==
    [][\A c \in Callers : \A n \in 1..Len(stack[c]) :
          (/\ n = Len(stack[c])
           /\ stack[c][n].i < Len(stack[c][n].lines)
           /\ IsRuleLine(stack[c][n].lines[stack[c][n].i + 1])
           /\ stack'[c] # stack[c]) =>
              /\ Len(stack'[c]) = n
              /\ stack'[c][n].i = stack[c][n].i + 1
              /\ stack'[c][n].paragraphBuffer = <<>>
              /\ PushedBy(c, n) # <<>>
              /\ PushedBy(c, n)[Len(PushedBy(c, n))] = [type |-> "rule"]]_vars

----------------------------------------------------------------------------
(* Properties of the extent of list runs *)

\* the running activation of caller c is at line i and takes a step that keeps it on the stack
ScansLine(c, i) ==
    /\ stack[c] # <<>>
    /\ Top(c).i = i
    /\ i < Len(Top(c).lines)
    /\ stack'[c] # stack[c]
    /\ Len(stack'[c]) >= Len(stack[c])

LineAt(c, i) == Top(c).lines[i + 1]

\* at a bullet line the step pushes one bulletList for exactly the bullet
\* lines up to the first line that is not one, whatever their markers and
\* indentation, and leaves the scan at that line with nothing pending
BulletRunIsMaximal ==
    \A c \in Callers : \A i \in 0..(IF stack[c] = <<>> THEN -1 ELSE Len(Top(c).lines) - 1) :
        (ScansLine(c, i) /\ IsBulletLine(LineAt(c, i))) =>
            LET n == Len(stack[c])
                pushed == PushedBy(c, n)
                list == pushed[Len(pushed)]
                k == Len(list.content) IN
            /\ Len(stack'[c]) = n
            /\ Len(pushed) = (IF Top(c).paragraphBuffer = <<>> THEN 1 ELSE 2)
            /\ list.type = "bulletList"
            /\ k >= 1
            /\ \A j \in i..(i + k - 1) : IsBulletLine(LineAt(c, j))
            /\ (i + k = Len(Top(c).lines) \/ ~IsBulletLine(LineAt(c, i + k)))
            /\ stack'[c][n].i = i + k
            /\ stack'[c][n].paragraphBuffer = <<>>

\* an ordered-list line directly after a bullet line starts an orderedList
\* right after the bulletList
OrderedAfterBulletIsSeparate ==
    \A c \in Callers : \A i \in 1..(IF stack[c] = <<>> THEN 0 ELSE Len(Top(c).lines) - 1) :
        (ScansLine(c, i) /\ IsOrderedLine(LineAt(c, i)) /\ IsBulletLine(LineAt(c, i - 1))) =>
            LET n == Len(stack[c])
                before == Top(c).blocks
                pushed == PushedBy(c, n) IN
            /\ Len(pushed) = 1
            /\ pushed[1].type = "orderedList"
            /\ before # <<>>
            /\ before[Len(before)].type = "bulletList"

\* a bullet line after a blank line after a bullet line starts a second bulletList
BlankLineEndsRun ==
    \A c \in Callers : \A i \in 2..(IF stack[c] = <<>> THEN 1 ELSE Len(Top(c).lines) - 1) :
        (/\ ScansLine(c, i)
         /\ IsBulletLine(LineAt(c, i))
         /\ TrimEnd(LineAt(c, i - 1)) = <<>>
         /\ IsBulletLine(LineAt(c, i - 2))) =>
            LET n == Len(stack[c])
                before == Top(c).blocks
                pushed == PushedBy(c, n) IN
            /\ Len(pushed) = 1
            /\ pushed[1].type = "bulletList"
            /\ before # <<>>
            /\ before[Len(before)].type = "bulletList"

\* C25: consecutive bullet lines form one bulletList whatever their
\* markers (- * + and the bullet character) and indentation; the run ends
\* at the first line that is not a bullet line, a blank line included, and
\* the scan goes on at that line; an ordered-list line directly after a
\* bullet line starts a separate orderedList.
C25_GreedyListRun ==
    /\ [][BulletRunIsMaximal]_vars
    /\ [][OrderedAfterBulletIsSeparate]_vars
    /\ [][BlankLineEndsRun]_vars

C25_Witness ==
    /\ Returned(1)
    /\ markdown[1] = MixedBullets
    /\ Len(result[1].content) = 2
    /\ result[1].content[1].type = "bulletList"
    /\ result[1].content[1].content[2].content[1].content = <<[type |-> "text", text |-> <<"c">>]>>
    /\ result[1].content[1].content[3].content[1].content = <<[type |-> "text", text |-> <<"d">>]>>
    /\ result[1].content[1].content[4].content[1].content = <<[type |-> "text", text |-> <<>>]>>
    /\ result[1].content[2].type = "orderedList"
    /\ result[1].content[2].content[1].content[1].content = <<[type |-> "text", text |-> <<"e">>]>>

----------------------------------------------------------------------------
(* Properties of the source of the configuration *)

IsSet(env, key) == env[key] # <<>> /\ env[key] # << <<>> >>

\* the names of the instances the environment variables configure
EnvNames(env) ==
    IF ~IsSet(env, "JIRA_EMAIL") THEN <<>>
    ELSE (IF IsSet(env, "JIRA_TOKEN_MMW") /\ IsSet(env, "TEMPO_TOKEN_MMW")
          THEN <<"mmw">> ELSE <<>>)
         \o (IF IsSet(env, "JIRA_TOKEN_PARES") /\ IsSet(env, "TEMPO_TOKEN_PARES")
             THEN <<"pares">> ELSE <<>>)
         \o (IF IsSet(env, "JIRA_TOKEN_LAGOASOFT") /\ IsSet(env, "TEMPO_TOKEN_LAGOASOFT")
             THEN <<"lagoasoft">> ELSE <<>>)

\* the loaded configuration is the one of config file c
TakenFromFile(loaded, c) ==
    /\ DOMAIN c = {"instances", "baseBranch"}
    /\ Len(loaded.instances) = Len(c.instances)
    /\ \A k \in 1..Len(c.instances) :
          /\ loaded.instances[k].name = c.instances[k].name
          /\ loaded.instances[k].pathPatterns = c.instances[k].pathPatterns
    /\ loaded.baseBranch = (IF c.baseBranch = <<>> THEN <<"m", "a", "i", "n">> ELSE c.baseBranch[1])

\* the loaded configuration is the one of the environment variables
TakenFromEnv(loaded, env) ==
    /\ Len(loaded.instances) = Len(EnvNames(env))
    /\ \A k \in 1..Len(loaded.instances) : loaded.instances[k].name = EnvNames(env)[k]
    /\ loaded.baseBranch =
          (IF env["DEFAULT_BASE_BRANCH"] = <<>> THEN <<"m", "a", "i", "n">>
           ELSE env["DEFAULT_BASE_BRANCH"][1])

\* the call that loads the configuration takes it from the first of the
\* two files that exists and parses, else from the environment, and
\* raises nothing but the error of a configuration without instances
FirstLoad ==
    (cachedConfig = NoConfig /\ cachedConfig' # NoConfig) =>
        LET loaded == cachedConfig'[1]
            primary == configured.files[1]
            secondary == configured.files[2] IN
        /\ primary.state = "parsed" => TakenFromFile(loaded, primary.content)
        /\ (primary.state # "parsed" /\ secondary.state = "parsed") =>
              TakenFromFile(loaded, secondary.content)
        /\ (primary.state # "parsed" /\ secondary.state # "parsed") =>
              TakenFromEnv(loaded, configured.env)
        /\ resolved' # resolved =>
              /\ resolved'.outcome.type \in {"ResolvedConfig", "Error"}
              /\ resolved'.outcome.type = "Error" <=> loaded.instances = <<>>
        /\ listed' # listed => Len(listed'.outcome) = Len(loaded.instances)

\* C26: the configuration is taken from ~/.config/jira-tempo-mcp/config.json
\* when that file exists and parses, otherwise from ~/.jira-tempo-mcp.json
\* when that one exists and parses, otherwise from the environment
\* variables; a file that exists and does not parse is passed over
\* without an error being raised.
C26_ConfigPriority == [][FirstLoad]_vars

----------------------------------------------------------------------------
(* Properties of the cache of the configuration *)

\* the outcome of resolveInstance comes from config
ResolvedFrom(outcome, config) ==
    /\ outcome.type = "Error" <=> config.instances = <<>>
    /\ outcome.type = "ResolvedConfig" =>
          /\ \E k \in 1..Len(config.instances) : outcome.instance = config.instances[k]
          /\ outcome.baseBranch = config.baseBranch
    /\ outcome.type \in {"Error", "ResolvedConfig"}

\* the outcome of listInstances or getAllInstances comes from config
ListedFrom(l, config) ==
    /\ Len(l.outcome) = Len(config.instances)
    /\ \A k \in 1..Len(l.outcome) :
          IF l.call = "getAllInstances"
          THEN l.outcome[k] = config.instances[k]
          ELSE /\ l.outcome[k].name = config.instances[k].name
               /\ l.outcome[k].patterns = config.instances[k].pathPatterns

\* once set, cachedConfig keeps its value, and a call gives what that
\* value gives, whatever the files and the environment are by then
LaterCallsUseCache ==
    cachedConfig # NoConfig =>
        /\ cachedConfig' = cachedConfig
        /\ resolved' # resolved => ResolvedFrom(resolved'.outcome, cachedConfig[1])
        /\ listed' # listed => ListedFrom(listed', cachedConfig[1])

\* every call of the three functions sets cachedConfig
EveryCallLoads ==
    (resolved' # resolved \/ listed' # listed) => cachedConfig' # NoConfig

\* C30: the configuration is loaded at most once per process: after the
\* first call of resolveInstance, listInstances or getAllInstances every
\* later call uses the instances and the base branch loaded then, also
\* when the files or the environment have changed, and also when no
\* instance was loaded (resolveInstance keeps throwing).
C30_LoadedOnce ==
    /\ [][LaterCallsUseCache]_vars
    /\ [][EveryCallLoads]_vars
    /\ [](cachedConfig = NoConfig => (resolved = NotResolved /\ listed = NotListed))
    /\ [](cachedConfig # NoConfig =>
            /\ resolved # NotResolved => ResolvedFrom(resolved.outcome, cachedConfig[1])
            /\ listed # NotListed => ListedFrom(listed, cachedConfig[1]))

\* no instance was loaded, the file now configures one, resolveInstance has thrown
C30_Witness ==
    /\ cachedConfig # NoConfig
    /\ Configuration.instances = <<>>
    /\ configured.files[1] = ParsedFile(MmwFile)
    /\ resolved.outcome.type = "Error"
    /\ resolved.cwd = <<"/", "M", "/", "x">>
    /\ listed.call = "getAllInstances"
    /\ listed.outcome = <<>>

----------------------------------------------------------------------------
(* Properties of the shape of tables *)

CellsAre(row, type) == \A k \in 1..Len(row.content) : row.content[k].type = type

\* every table of the sequence, and of the content of its nodes, has a
\* first row of header cells and later rows of body cells
RECURSIVE TablesHaveHeader(_)
TablesHaveHeader(ns) ==
    \A k \in 1..Len(ns) :
        /\ ns[k].type = "table" =>
              /\ Len(ns[k].content) >= 1
              /\ CellsAre(ns[k].content[1], "tableHeader")
              /\ \A r \in 2..Len(ns[k].content) : CellsAre(ns[k].content[r], "tableCell")
        /\ (ns[k].type # "table" /\ "content" \in DOMAIN ns[k]) => TablesHaveHeader(ns[k].content)

\* C27: every table of an output has at least one row; its first row
\* holds only tableHeader cells and every later row only tableCell cells.
C27_TableShape ==
    \A c \in Callers : Returned(c) => TablesHaveHeader(result[c].content)

----------------------------------------------------------------------------
(* Properties of the closing fence *)

\* the line, right-trimmed, starts with three backticks
StartsWithFence(line) ==
    LET t == TrimEnd(line) IN
    Len(t) >= 3 /\ t[1] = Backtick /\ t[2] = Backtick /\ t[3] = Backtick

\* the step that opens a fenced block at line i pushes a codeBlock of the
\* lines before the first later line that starts with three backticks,
\* and leaves the scan after that line
ClosedByFirstFence ==
    \A c \in Callers : \A i \in 0..(IF stack[c] = <<>> THEN -1 ELSE Len(Top(c).lines) - 1) :
        (ScansLine(c, i) /\ Branch(Top(c).lines, i) = "fence") =>
            LET n == Len(stack[c])
                lines == Top(c).lines
                later == {j \in (i + 1)..(Len(lines) - 1) : StartsWithFence(lines[j + 1])}
                close == IF later = {} THEN Len(lines) ELSE Min(later)
                pushed == PushedBy(c, n)
                block == pushed[Len(pushed)] IN
            /\ Len(stack'[c]) = n
            /\ Len(pushed) >= 1
            /\ block.type = "codeBlock"
            /\ block.content = <<[type |-> "text", text |-> JoinLines(SubSeq(lines, i + 2, close))]>>
            /\ stack'[c][n].i = close + 1
            /\ stack'[c][n].paragraphBuffer = <<>>

\* no line of the text of a codeBlock of the sequence, or of the content
\* of its nodes, starts with three backticks
RECURSIVE CodeHoldsNoFence(_)
CodeHoldsNoFence(ns) ==
    \A k \in 1..Len(ns) :
        /\ ns[k].type = "codeBlock" =>
              LET codeLines == SplitLines(ns[k].content[1].text) IN
              \A j \in 1..Len(codeLines) : ~StartsWithAt(codeLines[j], 0, Fence)
        /\ (ns[k].type # "codeBlock" /\ "content" \in DOMAIN ns[k]) => CodeHoldsNoFence(ns[k].content)

\* C28: in an open fenced block the first later line that, right-trimmed,
\* starts with three backticks closes the block whatever follows the
\* backticks; that line is in no block and is not scanned again; no line
\* of the text of a codeBlock starts with three backticks.
C28_ClosingFence ==
    /\ [][ClosedByFirstFence]_vars
    /\ [](\A c \in Callers :
            /\ Returned(c) => CodeHoldsNoFence(result[c].content)
            /\ \A n \in 1..Len(stack[c]) : CodeHoldsNoFence(stack[c][n].blocks))

C28_Witness ==
    /\ Returned(1)
    /\ markdown[1] = FencedConstructs
    /\ result[1].content =
          <<[type |-> "codeBlock",
             content |-> <<[type |-> "text",
                            text |-> <<"#", " ", "h", "\n", "-", " ", "*", "a", "*", "\n",
                                       ">", " ", "q">>]>>],
            [type |-> "paragraph",
             content |-> <<[type |-> "text", text |-> <<"x">>, marks |-> <<[type |-> "em"]>>]>>]>>

----------------------------------------------------------------------------
(* The converter without blockquotes.  Its parseInline, parseTableBlock,  *)
(* flushParagraph and its tests for fences, rules, headings, table rows,  *)
(* ordered-list lines and blank lines are those of the converter above.   *)

\* the length of the match of /^[\s]*[-*+]\s+/ in line, 0 when there is none
BulletPrefixWithoutBulletChar(line) ==
    LET w0 == RunLength(line, 0, WhiteSpace)
        w1 == RunLength(line, w0 + 1, WhiteSpace) IN
    IF CharAt(line, w0) \in {"-", "*", "+"} /\ w1 >= 1 THEN w0 + 1 + w1 ELSE 0

\* the items of the run of bullet lines from offset i on
BulletItemsWithoutBulletChar(lines, i) ==
    LET n == RunOfLines([k \in 1..Len(lines) |-> BulletPrefixWithoutBulletChar(lines[k]) > 0], i) IN
    [k \in 1..n |->
        ListItem(Slice(lines[i + k], BulletPrefixWithoutBulletChar(lines[i + k]), Len(lines[i + k])))]

\* the branches without the one for tables
BranchWithoutQuoteOrTable(lines, i) ==
    LET line == lines[i + 1]
        trimmed == TrimEnd(line) IN
    IF IsFenceOpen(trimmed) THEN "fence"
    ELSE IF IsRule(trimmed) THEN "rule"
    ELSE IF HeadingMatch(trimmed).level > 0 THEN "heading"
    ELSE IF BulletPrefixWithoutBulletChar(line) > 0 THEN "bullet"
    ELSE IF OrderedPrefix(line) > 0 THEN "ordered"
    ELSE IF trimmed = <<>> THEN "blank"
    ELSE "text"

\* the branch the loop body takes for lines[i]: no blockquote, and a table
\* for every table row whatever the next line is
BranchWithoutQuote(lines, i) ==
    LET line == lines[i + 1]
        trimmed == TrimEnd(line) IN
    IF IsFenceOpen(trimmed) THEN "fence"
    ELSE IF IsRule(trimmed) THEN "rule"
    ELSE IF HeadingMatch(trimmed).level > 0 THEN "heading"
    ELSE IF IsTableRow(trimmed) THEN "table"
    ELSE IF BulletPrefixWithoutBulletChar(line) > 0 THEN "bullet"
    ELSE IF OrderedPrefix(line) > 0 THEN "ordered"
    ELSE IF trimmed = <<>> THEN "blank"
    ELSE "text"

\* one iteration of while (i < lines.length): the locals after it
StepWithoutQuote(f) ==
    LET line == f.lines[f.i + 1]
        trimmed == TrimEnd(line)
        branch == BranchWithoutQuote(f.lines, f.i) IN
    CASE branch = "fence" ->
            LET end == FenceEnd(f.lines, f.i) IN
            Emitted(f, <<CodeBlock(SubSeq(f.lines, f.i + 2, end), FenceLanguage(trimmed))>>, end + 1)
      [] branch = "rule" -> Emitted(f, <<[type |-> "rule"]>>, f.i + 1)
      [] branch = "heading" ->
            LET headingMatch == HeadingMatch(trimmed)
                level == IF headingMatch.level < 6 THEN headingMatch.level ELSE 6 IN
            Emitted(f, <<[type |-> "heading", attrs |-> [level |-> level],
                          content |-> parseInline(Slice(trimmed, headingMatch.from, Len(trimmed)))]>>,
                    f.i + 1)
      [] branch = "table" ->
            LET n == RunOfLines([k \in 1..Len(f.lines) |-> IsTableRow(TrimEnd(f.lines[k]))], f.i) IN
            Emitted(f, <<parseTableBlock(SubSeq(f.lines, f.i + 1, f.i + n))>>, f.i + n)
      [] branch = "bullet" ->
            LET items == BulletItemsWithoutBulletChar(f.lines, f.i) IN
            Emitted(f, <<[type |-> "bulletList", content |-> items]>>, f.i + Len(items))
      [] branch = "ordered" ->
            LET items == OrderedItems(f.lines, f.i) IN
            Emitted(f, <<[type |-> "orderedList", content |-> items]>>, f.i + Len(items))
      [] branch = "blank" -> Emitted(f, <<>>, f.i + 1)
      [] branch = "text" -> [f EXCEPT !.paragraphBuffer = Append(@, trimmed), !.i = @ + 1]

\* the loop, the last flush and the returned document
RECURSIVE ScanWithoutQuote(_)
ScanWithoutQuote(f) ==
    IF f.i >= Len(f.lines) THEN Doc(flushParagraph(f.blocks, f.paragraphBuffer))
    ELSE ScanWithoutQuote(StepWithoutQuote(f))

\* markdownToAdf(markdown) of the converter without blockquotes
markdownToAdfWithoutQuote(md) == ScanWithoutQuote(NewFrame(md))

----------------------------------------------------------------------------
(* Properties of the two converters *)

\* no line begins with >
NoQuoteLine(lines) == \A k \in 1..Len(lines) : CharAt(lines[k], 0) # ">"

\* no list line has the bullet character as its marker
NoBulletCharLine(lines) ==
    \A k \in 1..Len(lines) :
        LET p == RunLength(lines[k], 0, WhiteSpace) IN
        ~(CharAt(lines[k], p) = BulletChar /\ CharAt(lines[k], p + 1) \in WhiteSpace)

\* pipes, hyphens, colons and whitespace only, between a first and a last pipe
SeparatorRow(line) ==
    LET t == Trim(line) IN
    /\ Len(t) >= 3
    /\ t[1] = "|"
    /\ t[Len(t)] = "|"
    /\ \A p \in 1..Len(t) : t[p] \in WhiteSpace \cup {"|", "-", ":"}

\* every maximal run of pipe-delimited lines has a separator row as its second line
PipeRunsHaveSeparator(lines) ==
    \A k \in 1..Len(lines) :
        (PipeDelimited(lines[k]) /\ (k = 1 \/ ~PipeDelimited(lines[k - 1]))) =>
            /\ k < Len(lines)
            /\ PipeDelimited(lines[k + 1])
            /\ SeparatorRow(lines[k + 1])

Comparable(md) ==
    LET lines == SplitLines(md) IN
    /\ NoQuoteLine(lines)
    /\ NoBulletCharLine(lines)
    /\ PipeRunsHaveSeparator(lines)

\* C29: the converter without blockquotes and the converter with them
\* return the same document for every input in which no line begins with
\* >, no list line has the bullet character as its marker, and every
\* maximal run of pipe-delimited lines has a separator row as its second line.
C29_SameDocuments ==
    \A c \in Callers :
        (Returned(c) /\ Comparable(markdown[c])) =>
            result[c] = markdownToAdfWithoutQuote(markdown[c])

C29_Witness ==
    /\ Returned(1)
    /\ markdown[1] = TableAb
    /\ Comparable(markdown[1])
    /\ result[1] = markdownToAdfWithoutQuote(TableAb)
    /\ Len(result[1].content) = 1
    /\ result[1].content[1].type = "table"
    /\ Len(result[1].content[1].content) = 2
====
